---- MODULE Spec2Model ----
(***************************************************************************)
(* Model of the longest-prefix-match trie of sakateka/lpm (src/lpm.go).    *)
(*                                                                         *)
(* A 32-bit slot word is kept as the pair <<hi, lo>> of its top 8 bits and *)
(* its low 24 bits, so that every word of the code, block references       *)
(* (>= 2^31) included, is representable.  A block is a function from the   *)
(* slot number 0..255 to a word.  A value (a Go string) is a sequence of   *)
(* bytes; an address is the sequence netip.Addr.AsSlice() returns, 4 bytes *)
(* for IPv4 and 16 for IPv6.                                               *)
(*                                                                         *)
(* The shared tier of a loaded trie is a view over the byte buffer it was  *)
(* loaded from: the trie holds the lengths of the views, the buffer holds  *)
(* the blocks and the value bytes, and a write to a shared block is a      *)
(* write to the buffer.  Operations therefore act on a pair                *)
(* [lpm, storage].                                                         *)
(***************************************************************************)
EXTENDS Integers, Sequences, FiniteSets, TLC

(***************************************************************************)
(* Bounds of the model.                                                    *)
(***************************************************************************)
\* Operations (inserts and pack-and-load round trips) in one behaviour.
MaxOps == 3

\* Pack-and-load round trips in one behaviour.
MaxLoads == 1

(***************************************************************************)
(* Constants of src/lpm.go.                                                *)
(***************************************************************************)
v4LPM == 0

v6LPM == 1

blockSize == 256

prefixLenShift == 24

magicNumber == 1280331008

currentVersion == 1

headerSize == 36

TwoTo24 == 16777216

\* 0xC0000000 as <<hi, lo>>
blockRefMask == <<192, 0>>

ZeroWord == <<0, 0>>

(***************************************************************************)
(* Bit operations on naturals.                                             *)
(***************************************************************************)
RECURSIVE BitAnd(_, _)
BitAnd(a, b) ==
    IF a = 0 \/ b = 0 THEN 0
    ELSE (a % 2) * (b % 2) + 2 * BitAnd(a \div 2, b \div 2)

RECURSIVE BitOr(_, _)
BitOr(a, b) ==
    IF a = 0 THEN b
    ELSE IF b = 0 THEN a
    ELSE (IF a % 2 = 1 \/ b % 2 = 1 THEN 1 ELSE 0) + 2 * BitOr(a \div 2, b \div 2)

Pow2(n) == 2 ^ n

\* uint32(x) as <<hi, lo>>
Uint32(x) == <<(x \div TwoTo24) % 256, x % TwoTo24>>

\* w << 24 on a uint32
ShiftLeft24(w) == <<w[2] % 256, 0>>

WordOr(a, b) == <<BitOr(a[1], b[1]), BitOr(a[2], b[2])>>

(***************************************************************************)
(* Slot codec.                                                             *)
(***************************************************************************)
\* Mutant of encodeValue: the prefix length is stored without the + 1.
encodeValue_noPlusOne(valueIdx, prefixLen) ==
    WordOr(ShiftLeft24(Uint32(prefixLen)), Uint32(valueIdx))

encodeValue(valueIdx, prefixLen) ==
    WordOr(ShiftLeft24(Uint32(prefixLen + 1)), Uint32(valueIdx))

\* Mutant of encodeBlockRef: the block index is left out of the word.
encodeBlockRef_noIndex(blockIdx) == blockRefMask

encodeBlockRef(blockIdx) == WordOr(blockRefMask, Uint32(blockIdx))

\* valueIdx = encoded & 0x00FFFFFF, prefixLen = (encoded >> 24) - 1
decodeValue(encoded) == [valueIdx |-> encoded[2], prefixLen |-> encoded[1] - 1]

\* Mutant of decodeBlockRef: the mask clears the top bit only.
decodeBlockRef_wideMask(encoded) == (encoded[1] % 128) * TwoTo24 + encoded[2]

\* encoded & 0x3FFFFFFF
decodeBlockRef(encoded) == (encoded[1] % 64) * TwoTo24 + encoded[2]

\* Mutant of isBlockRef: the top bit alone marks a block reference.
isBlockRef_topBit(encoded) == encoded[1] \div 128 = 1

\* (encoded & 0xC0000000) == 0xC0000000: the top two bits are both set
isBlockRef(encoded) == encoded[1] \div 64 = 3

isInvalid(encoded) == encoded = ZeroWord

(***************************************************************************)
(* Blocks, tries and buffers.                                              *)
(***************************************************************************)
LPMBlock == [i \in 0 .. (blockSize - 1) |-> ZeroWord]

\* The absent buffer of a trie made by New().
NoStorage ==
    [size |-> 0, Magic |-> 0, Version |-> 0,
     V4BlockCount |-> 0, V6BlockCount |-> 0,
     ValueCount |-> 0, ValueSlotSize |-> 0,
     V4BlocksOffset |-> 0, V6BlocksOffset |-> 0, ValuesOffset |-> 0,
     blocks |-> << <<>>, <<>> >>, values |-> <<>>]

EmptyMap == [x \in {} |-> 0]

New ==
    [shared |-> <<0, 0>>,
     sharedValues |-> [nil |-> TRUE, len |-> 0],
     sharedValuesSlotSize |-> 0,
     sharedValueCount |-> 0,
     dynamic |-> << <<LPMBlock>>, <<LPMBlock>> >>,
     values |-> EmptyMap,
     revValues |-> <<>>]

\* Mutant of blockWithValue: the new block is empty whatever the slot held.
blockWithValue_zero(initValue) == LPMBlock

blockWithValue(initValue) ==
    IF isInvalid(initValue) THEN LPMBlock
    ELSE [idx \in 0 .. (blockSize - 1) |-> initValue]

\* Mutant of addValue: a new value takes the place of the dynamic values.
addValue_reset(m, value) ==
    IF value \in DOMAIN m.values
    THEN [valueIdx |-> m.values[value], lpm |-> m]
    ELSE [valueIdx |-> m.sharedValueCount,
          lpm |-> [m EXCEPT !.values = (value :> m.sharedValueCount),
                            !.revValues = <<value>>]]

\* Mutant of addValue: the value is appended without the look in the map.
addValue_noDedup(m, value) ==
    LET valueIdx == m.sharedValueCount + Len(m.revValues)
    IN  [valueIdx |-> valueIdx,
         lpm |-> [m EXCEPT !.values = (value :> valueIdx) @@ m.values,
                           !.revValues = Append(m.revValues, value)]]

\* Returns the index and the trie with the value interned.
addValue(m, value) ==
    IF value \in DOMAIN m.values
    THEN [valueIdx |-> m.values[value], lpm |-> m]
    ELSE LET valueIdx == m.sharedValueCount + Len(m.revValues)
         IN  [valueIdx |-> valueIdx,
              lpm |-> [m EXCEPT !.values = (value :> valueIdx) @@ m.values,
                                !.revValues = Append(m.revValues, value)]]

getValueByIndex(t, valueIdx) ==
    LET m == t.lpm
        bytes == t.storage.values
    IN  IF valueIdx < m.sharedValueCount
        THEN IF m.sharedValues.nil \/ m.sharedValuesSlotSize = 0
             THEN [value |-> <<>>, ok |-> FALSE]
             ELSE LET offset == valueIdx * m.sharedValuesSlotSize
                  IN  IF offset + m.sharedValuesSlotSize > m.sharedValues.len
                      THEN [value |-> <<>>, ok |-> FALSE]
                      ELSE LET strLen == bytes[offset + 1]
                           IN  IF strLen = 0 \/ offset + 1 + strLen > m.sharedValues.len
                               THEN [value |-> <<>>, ok |-> FALSE]
                               ELSE [value |-> SubSeq(bytes, offset + 2, offset + 1 + strLen),
                                     ok |-> TRUE]
        ELSE LET dynamicIdx == valueIdx - m.sharedValueCount
             IN  IF dynamicIdx >= Len(m.revValues)
                 THEN [value |-> <<>>, ok |-> FALSE]
                 ELSE [value |-> m.revValues[dynamicIdx + 1], ok |-> TRUE]

getBlockRef(t, proto, blockIdx) ==
    LET sharedLen == t.lpm.shared[proto + 1]
    IN  IF blockIdx < sharedLen
        THEN t.storage.blocks[proto + 1][blockIdx + 1]
        ELSE t.lpm.dynamic[proto + 1][blockIdx - sharedLen + 1]

getValue(t, proto, block, slot) ==
    LET sharedLen == t.lpm.shared[proto + 1]
    IN  IF block < sharedLen
        THEN t.storage.blocks[proto + 1][block + 1][slot]
        ELSE t.lpm.dynamic[proto + 1][block - sharedLen + 1][slot]

setValue(t, proto, block, slot, value) ==
    LET sharedLen == t.lpm.shared[proto + 1]
    IN  IF block < sharedLen
        THEN [t EXCEPT !.storage.blocks[proto + 1][block + 1][slot] = value]
        ELSE [t EXCEPT !.lpm.dynamic[proto + 1][block - sharedLen + 1][slot] = value]

\* The writes innerBlockRef[idx] = ... made through the pointer getBlockRef returns.
storeBlock(t, proto, blockIdx, blk) ==
    LET sharedLen == t.lpm.shared[proto + 1]
    IN  IF blockIdx < sharedLen
        THEN [t EXCEPT !.storage.blocks[proto + 1][blockIdx + 1] = blk]
        ELSE [t EXCEPT !.lpm.dynamic[proto + 1][blockIdx - sharedLen + 1] = blk]

(***************************************************************************)
(* Insert.                                                                 *)
(***************************************************************************)
\* Mutant of fillInvalid: the terminals of the child block take the new value too.
fillInvalid_terminals(blk, newValue) ==
    [idx \in 0 .. (blockSize - 1) |-> IF isBlockRef(blk[idx]) THEN blk[idx] ELSE newValue]

\* The loop over the child block: only invalid slots take the new value.
fillInvalid(blk, newValue) ==
    [idx \in 0 .. (blockSize - 1) |-> IF isInvalid(blk[idx]) THEN newValue ELSE blk[idx]]

\* Mutant of propagateSlot: a terminal is overwritten whatever its prefix length.
propagateSlot_clobber(t, proto, blockIdx, newValue, prefixLen, inBlockIdx) ==
    LET currentVal == getValue(t, proto, blockIdx, inBlockIdx)
    IN  IF isBlockRef(currentVal)
        THEN LET innerBlockIdx == decodeBlockRef(currentVal)
                 innerBlockRef == getBlockRef(t, proto, innerBlockIdx)
             IN  storeBlock(t, proto, innerBlockIdx, fillInvalid(innerBlockRef, newValue))
        ELSE setValue(t, proto, blockIdx, inBlockIdx, newValue)

\* One iteration of the loop of propagateValue.
propagateSlot(t, proto, blockIdx, newValue, prefixLen, inBlockIdx) ==
    LET currentVal == getValue(t, proto, blockIdx, inBlockIdx)
    IN  IF isBlockRef(currentVal)
        THEN LET innerBlockIdx == decodeBlockRef(currentVal)
                 innerBlockRef == getBlockRef(t, proto, innerBlockIdx)
             IN  storeBlock(t, proto, innerBlockIdx, fillInvalid(innerBlockRef, newValue))
        ELSE IF isInvalid(currentVal)
        THEN setValue(t, proto, blockIdx, inBlockIdx, newValue)
        ELSE LET existingPrefixLen == decodeValue(currentVal).prefixLen
             IN  IF prefixLen >= existingPrefixLen
                 THEN setValue(t, proto, blockIdx, inBlockIdx, newValue)
                 ELSE t

\* The loop of propagateValue over the slots inBlockIdx .. endIdx, in increasing
\* order.  The range is halved, and the binding t1 \in {...} makes the first
\* half be evaluated before the second one starts, so that the evaluation of
\* the 256 iterations of a /0 stays shallow.
RECURSIVE propagateLoop(_, _, _, _, _, _, _)
propagateLoop(t, proto, blockIdx, newValue, prefixLen, inBlockIdx, endIdx) ==
    IF inBlockIdx > endIdx THEN t
    ELSE IF inBlockIdx = endIdx
    THEN propagateSlot(t, proto, blockIdx, newValue, prefixLen, inBlockIdx)
    ELSE CHOOSE t2 \in
           { propagateLoop(t1, proto, blockIdx, newValue, prefixLen,
                           ((inBlockIdx + endIdx) \div 2) + 1, endIdx) :
             t1 \in { propagateLoop(t, proto, blockIdx, newValue, prefixLen,
                                    inBlockIdx, (inBlockIdx + endIdx) \div 2) } } : TRUE

propagateValue(t, proto, blockIdx, valueIdx, prefixLen, startIdx, endIdx) ==
    propagateLoop(t, proto, blockIdx, encodeValue(valueIdx, prefixLen),
                  prefixLen, startIdx, endIdx)

\* Mutant of tailMask: the mask is shifted by one bit more.
tailMask_wide(tail) == (255 * Pow2(tail + 1)) % 256

\* uint8(0xff << tail)
tailMask(tail) == (255 * Pow2(tail)) % 256

\* Mutant of createBlock: the index of the new block leaves out the shared tier.
createBlock_noShared(t, proto, blockIdx, inBlockIdx, currentVal) ==
    LET newBlockIdx == Len(t.lpm.dynamic[proto + 1])
        t1 == setValue(t, proto, blockIdx, inBlockIdx, encodeBlockRef(newBlockIdx))
    IN  [t |-> [t1 EXCEPT !.lpm.dynamic[proto + 1] =
                              Append(t1.lpm.dynamic[proto + 1], blockWithValue(currentVal))],
         blockIdx |-> newBlockIdx]

\* Mutant of createBlock: the slot refers to the block after the new one.
createBlock_refPastEnd(t, proto, blockIdx, inBlockIdx, currentVal) ==
    LET newBlockIdx == t.lpm.shared[proto + 1] + Len(t.lpm.dynamic[proto + 1])
        t1 == setValue(t, proto, blockIdx, inBlockIdx, encodeBlockRef(newBlockIdx + 1))
    IN  [t |-> [t1 EXCEPT !.lpm.dynamic[proto + 1] =
                              Append(t1.lpm.dynamic[proto + 1], blockWithValue(currentVal))],
         blockIdx |-> newBlockIdx]

\* Mutant of createBlock: a spare block is appended after the new one.
createBlock_spare(t, proto, blockIdx, inBlockIdx, currentVal) ==
    LET newBlockIdx == t.lpm.shared[proto + 1] + Len(t.lpm.dynamic[proto + 1])
        t1 == setValue(t, proto, blockIdx, inBlockIdx, encodeBlockRef(newBlockIdx))
    IN  [t |-> [t1 EXCEPT !.lpm.dynamic[proto + 1] =
                              Append(Append(t1.lpm.dynamic[proto + 1],
                                            blockWithValue(currentVal)), LPMBlock)],
         blockIdx |-> newBlockIdx]

\* Mutant of rangeStart: the byte of the address is taken as it is.
rangeStart_unmasked(inBlockIdx, mask) == inBlockIdx

\* startIdx := inBlockIdx & mask
rangeStart(inBlockIdx, mask) == BitAnd(inBlockIdx, mask)

\* The else branch of the walk: a new child block replaces the slot.
createBlock(t, proto, blockIdx, inBlockIdx, currentVal) ==
    LET newBlockIdx == t.lpm.shared[proto + 1] + Len(t.lpm.dynamic[proto + 1])
        t1 == setValue(t, proto, blockIdx, inBlockIdx, encodeBlockRef(newBlockIdx))
    IN  [t |-> [t1 EXCEPT !.lpm.dynamic[proto + 1] =
                              Append(t1.lpm.dynamic[proto + 1], blockWithValue(currentVal))],
         blockIdx |-> newBlockIdx]

\* The loop of Insert from byte idx (0-based) of the address on.
RECURSIVE insertWalk(_, _, _, _, _, _, _)
insertWalk(t, proto, addr, prefixLen, valueIdx, idx, blockIdx) ==
    IF idx >= Len(addr) THEN t
    ELSE LET inBlockIdx == addr[idx + 1]
             tail == (idx + 1) * 8 - prefixLen
         IN  IF tail >= 0
             THEN LET mask == tailMask(tail)
                      startIdx == rangeStart(inBlockIdx, mask)
                      endIdx == BitOr(startIdx, 255 - mask)
                  IN  propagateValue(t, proto, blockIdx, valueIdx, prefixLen, startIdx, endIdx)
             ELSE LET currentVal == getValue(t, proto, blockIdx, inBlockIdx)
                  IN  IF isBlockRef(currentVal)
                      THEN insertWalk(t, proto, addr, prefixLen, valueIdx, idx + 1,
                                      decodeBlockRef(currentVal))
                      ELSE LET c == createBlock(t, proto, blockIdx, inBlockIdx, currentVal)
                           IN  insertWalk(c.t, proto, addr, prefixLen, valueIdx, idx + 1,
                                          c.blockIdx)

\* netip.Addr.Is6: a 16-byte address (IPv4-mapped addresses included).
Is6(addr) == Len(addr) = 16

\* Mutant of protoOf: an IPv4-mapped IPv6 address is taken for an IPv4 one.
protoOf_unmap(addr) ==
    IF Is6(addr) /\ ~(/\ \A i \in 1 .. 10 : addr[i] = 0
                      /\ addr[11] = 255
                      /\ addr[12] = 255)
    THEN v6LPM ELSE v4LPM

protoOf(addr) == IF Is6(addr) THEN v6LPM ELSE v4LPM

\* Insert(net, value) on the trie t.lpm backed by t.storage.
InsertOp(t, net, value) ==
    LET a == addValue(t.lpm, value)
    IN  insertWalk([t EXCEPT !.lpm = a.lpm], protoOf(net.addr), net.addr, net.bits,
                   a.valueIdx, 0, 0)

(***************************************************************************)
(* Lookup.                                                                 *)
(***************************************************************************)
NotFound == [value |-> <<>>, ok |-> FALSE]

\* The walk of Lookup: the slot word on which the loop stops, a terminal or
\* an empty slot, or the block reference read at the last byte of the address.
RECURSIVE lookupWalk(_, _, _, _, _)
lookupWalk(t, proto, addr, idx, blockIdx) ==
    IF isBlockRef(getValue(t, proto, blockIdx, addr[idx + 1])) /\ idx + 1 < Len(addr)
    THEN lookupWalk(t, proto, addr, idx + 1,
                    decodeBlockRef(getValue(t, proto, blockIdx, addr[idx + 1])))
    ELSE getValue(t, proto, blockIdx, addr[idx + 1])

Lookup(t, addr) ==
    LET value == lookupWalk(t, protoOf(addr), addr, 0, 0)
    IN  IF isBlockRef(value) \/ isInvalid(value)
        THEN NotFound
        ELSE getValueByIndex(t, decodeValue(value).valueIdx)

(***************************************************************************)
(* Pack and load.                                                          *)
(***************************************************************************)
Zeros(n) == [i \in 1 .. n |-> 0]

Max(a, b) == IF a > b THEN a ELSE b

\* Whether the shared values are scanned and copied by PackToSharedStorage.
hasSharedValues(m) == m.sharedValueCount > 0 /\ m.sharedValues.len > 0

\* Length byte of shared value i.
sharedStrLen(t, i) == t.storage.values[i * t.lpm.sharedValuesSlotSize + 1]

\* Mutant of maxSharedLen: the shared values are left out of the scan.
maxSharedLen_skip(t, i) == 0

RECURSIVE maxSharedLen(_, _)
maxSharedLen(t, i) ==
    IF i >= t.lpm.sharedValueCount THEN 0
    ELSE Max(sharedStrLen(t, i), maxSharedLen(t, i + 1))

RECURSIVE maxDynamicLen(_, _)
maxDynamicLen(revValues, i) ==
    IF i > Len(revValues) THEN 0
    ELSE Max(Len(revValues[i]), maxDynamicLen(revValues, i + 1))

\* One value slot: length byte, payload, zero padding.
valueSlot(val, valueSlotSize) ==
    <<Len(val) % 256>> \o val \o Zeros(valueSlotSize - 1 - Len(val))

RECURSIVE packSharedValues(_, _, _)
packSharedValues(t, i, valueSlotSize) ==
    IF i >= t.lpm.sharedValueCount THEN <<>>
    ELSE LET srcOffset == i * t.lpm.sharedValuesSlotSize
             strLen == t.storage.values[srcOffset + 1]
         IN  valueSlot(SubSeq(t.storage.values, srcOffset + 2, srcOffset + 1 + strLen),
                       valueSlotSize)
             \o packSharedValues(t, i + 1, valueSlotSize)

RECURSIVE packDynamicValues(_, _, _)
packDynamicValues(revValues, i, valueSlotSize) ==
    IF i > Len(revValues) THEN <<>>
    ELSE valueSlot(revValues[i], valueSlotSize)
         \o packDynamicValues(revValues, i + 1, valueSlotSize)

\* Mutant of packBlocks: the dynamic blocks are written before the shared ones.
packBlocks_dynamicFirst(t, proto) ==
    t.lpm.dynamic[proto + 1]
    \o SubSeq(t.storage.blocks[proto + 1], 1, t.lpm.shared[proto + 1])

\* Shared blocks first, then dynamic blocks, of one family.
packBlocks(t, proto) ==
    SubSeq(t.storage.blocks[proto + 1], 1, t.lpm.shared[proto + 1])
    \o t.lpm.dynamic[proto + 1]

\* Mutant of tooLong: a value of exactly 255 bytes is rejected too.
tooLong_from255(t) ==
    \/ /\ hasSharedValues(t.lpm)
       /\ \E i \in 0 .. t.lpm.sharedValueCount - 1 : sharedStrLen(t, i) >= 255
    \/ \E i \in 1 .. Len(t.lpm.revValues) : Len(t.lpm.revValues[i]) >= 255

\* The two scans that make PackToSharedStorage return an error: a length byte
\* of a shared value above 255, a dynamic value longer than 255 bytes.
tooLong(t) ==
    \/ /\ hasSharedValues(t.lpm)
       /\ \E i \in 0 .. t.lpm.sharedValueCount - 1 : sharedStrLen(t, i) > 255
    \/ \E i \in 1 .. Len(t.lpm.revValues) : Len(t.lpm.revValues[i]) > 255

PackToSharedStorage(t) ==
    LET m == t.lpm
        maxValueLen == Max(IF hasSharedValues(m) THEN maxSharedLen(t, 0) ELSE 0,
                           maxDynamicLen(m.revValues, 1))
        blockByteSize == blockSize * 4
        valueSlotSize == maxValueLen + 1
        v4BlockCount == m.shared[v4LPM + 1] + Len(m.dynamic[v4LPM + 1])
        v6BlockCount == m.shared[v6LPM + 1] + Len(m.dynamic[v6LPM + 1])
        valueCount == m.sharedValueCount + Len(m.revValues)
        v4BlocksOffset == headerSize
        v6BlocksOffset == v4BlocksOffset + v4BlockCount * blockByteSize
        valuesOffset == v6BlocksOffset + v6BlockCount * blockByteSize
        totalSize == valuesOffset + valueCount * valueSlotSize
        written == (IF hasSharedValues(m) THEN packSharedValues(t, 0, valueSlotSize) ELSE <<>>)
                   \o packDynamicValues(m.revValues, 1, valueSlotSize)
    IN  IF tooLong(t)
        THEN [err |-> TRUE, storage |-> NoStorage]
        ELSE [err |-> FALSE,
              storage |->
                [size |-> totalSize,
                 Magic |-> magicNumber,
                 Version |-> currentVersion,
                 V4BlockCount |-> v4BlockCount,
                 V6BlockCount |-> v6BlockCount,
                 ValueCount |-> valueCount,
                 ValueSlotSize |-> valueSlotSize,
                 V4BlocksOffset |-> v4BlocksOffset,
                 V6BlocksOffset |-> v6BlocksOffset,
                 ValuesOffset |-> valuesOffset,
                 blocks |-> <<packBlocks(t, v4LPM), packBlocks(t, v6LPM)>>,
                 values |-> written \o Zeros(valueCount * valueSlotSize - Len(written))]]

\* Mutant of loadStatus: the version is not checked.
loadStatus_anyVersion(st) ==
    LET blockByteSize == blockSize * 4
    IN  IF st.size < headerSize THEN "storage too small"
        ELSE IF st.Magic # magicNumber THEN "invalid magic number"
        ELSE IF /\ st.V4BlockCount > 0
                /\ st.size < st.V4BlocksOffset + st.V4BlockCount * blockByteSize
        THEN "storage too small for IPv4 blocks"
        ELSE IF /\ st.V6BlockCount > 0
                /\ st.size < st.V6BlocksOffset + st.V6BlockCount * blockByteSize
        THEN "storage too small for IPv6 blocks"
        ELSE IF /\ st.ValueCount > 0 /\ st.ValueSlotSize > 0
                /\ st.size < st.ValuesOffset + st.ValueCount * st.ValueSlotSize
        THEN "storage too small for values"
        ELSE "nil"

\* Mutant of loadStatus: the value region is not checked.
loadStatus_noValueCheck(st) ==
    LET blockByteSize == blockSize * 4
    IN  IF st.size < headerSize THEN "storage too small"
        ELSE IF st.Magic # magicNumber THEN "invalid magic number"
        ELSE IF st.Version # currentVersion THEN "unsupported version"
        ELSE IF /\ st.V4BlockCount > 0
                /\ st.size < st.V4BlocksOffset + st.V4BlockCount * blockByteSize
        THEN "storage too small for IPv4 blocks"
        ELSE IF /\ st.V6BlockCount > 0
                /\ st.size < st.V6BlocksOffset + st.V6BlockCount * blockByteSize
        THEN "storage too small for IPv6 blocks"
        ELSE "nil"

\* The checks of NewWithSharedStorage, in the order of the code, with the
\* error each of them returns ("nil": none).
loadStatus(st) ==
    LET blockByteSize == blockSize * 4
    IN  IF st.size < headerSize THEN "storage too small"
        ELSE IF st.Magic # magicNumber THEN "invalid magic number"
        ELSE IF st.Version # currentVersion THEN "unsupported version"
        ELSE IF /\ st.V4BlockCount > 0
                /\ st.size < st.V4BlocksOffset + st.V4BlockCount * blockByteSize
        THEN "storage too small for IPv4 blocks"
        ELSE IF /\ st.V6BlockCount > 0
                /\ st.size < st.V6BlocksOffset + st.V6BlockCount * blockByteSize
        THEN "storage too small for IPv6 blocks"
        ELSE IF /\ st.ValueCount > 0 /\ st.ValueSlotSize > 0
                /\ st.size < st.ValuesOffset + st.ValueCount * st.ValueSlotSize
        THEN "storage too small for values"
        ELSE "nil"

loadError(st) == loadStatus(st) # "nil"

\* The *LPM returned with an error.
NilLPM == [nil |-> TRUE]

\* Mutant of NewWithSharedStorage: the dynamic tier always starts with a root.
NewWithSharedStorage_extraRoot(st) ==
    IF loadError(st)
    THEN [err |-> TRUE, lpm |-> NilLPM]
    ELSE [err |-> FALSE,
          lpm |->
            [shared |-> <<st.V4BlockCount, st.V6BlockCount>>,
             sharedValues |->
                IF st.ValueCount > 0 /\ st.ValueSlotSize > 0
                THEN [nil |-> FALSE, len |-> st.ValueCount * st.ValueSlotSize]
                ELSE [nil |-> TRUE, len |-> 0],
             sharedValuesSlotSize |-> st.ValueSlotSize,
             sharedValueCount |-> st.ValueCount,
             dynamic |-> << <<LPMBlock>>, <<LPMBlock>> >>,
             values |-> EmptyMap,
             revValues |-> <<>>]]

\* Mutant of NewWithSharedStorage: the dynamic tier always starts empty.
NewWithSharedStorage_noSeed(st) ==
    IF loadError(st)
    THEN [err |-> TRUE, lpm |-> NilLPM]
    ELSE [err |-> FALSE,
          lpm |->
            [shared |-> <<st.V4BlockCount, st.V6BlockCount>>,
             sharedValues |->
                IF st.ValueCount > 0 /\ st.ValueSlotSize > 0
                THEN [nil |-> FALSE, len |-> st.ValueCount * st.ValueSlotSize]
                ELSE [nil |-> TRUE, len |-> 0],
             sharedValuesSlotSize |-> st.ValueSlotSize,
             sharedValueCount |-> st.ValueCount,
             dynamic |-> << <<>>, <<>> >>,
             values |-> EmptyMap,
             revValues |-> <<>>]]

\* Mutant of NewWithSharedStorage: the dedup map is filled from the shared values.
NewWithSharedStorage_rehash(st) ==
    IF loadError(st)
    THEN [err |-> TRUE, lpm |-> NilLPM]
    ELSE [err |-> FALSE,
          lpm |->
            [shared |-> <<st.V4BlockCount, st.V6BlockCount>>,
             sharedValues |->
                IF st.ValueCount > 0 /\ st.ValueSlotSize > 0
                THEN [nil |-> FALSE, len |-> st.ValueCount * st.ValueSlotSize]
                ELSE [nil |-> TRUE, len |-> 0],
             sharedValuesSlotSize |-> st.ValueSlotSize,
             sharedValueCount |-> st.ValueCount,
             dynamic |-> <<IF st.V4BlockCount > 0 THEN <<>> ELSE <<LPMBlock>>,
                           IF st.V6BlockCount > 0 THEN <<>> ELSE <<LPMBlock>> >>,
             values |-> [v \in {SubSeq(st.values, i * st.ValueSlotSize + 2,
                                       i * st.ValueSlotSize + 1
                                          + st.values[i * st.ValueSlotSize + 1]) :
                                   i \in 0 .. (st.ValueCount - 1)} |-> 0],
             revValues |-> <<>>]]

NewWithSharedStorage(st) ==
    IF loadError(st)
    THEN [err |-> TRUE, lpm |-> NilLPM]
    ELSE [err |-> FALSE,
          lpm |->
            [shared |-> <<st.V4BlockCount, st.V6BlockCount>>,
             sharedValues |->
                IF st.ValueCount > 0 /\ st.ValueSlotSize > 0
                THEN [nil |-> FALSE, len |-> st.ValueCount * st.ValueSlotSize]
                ELSE [nil |-> TRUE, len |-> 0],
             sharedValuesSlotSize |-> st.ValueSlotSize,
             sharedValueCount |-> st.ValueCount,
             dynamic |-> <<IF st.V4BlockCount > 0 THEN <<>> ELSE <<LPMBlock>>,
                           IF st.V6BlockCount > 0 THEN <<>> ELSE <<LPMBlock>> >>,
             values |-> EmptyMap,
             revValues |-> <<>>]]

(***************************************************************************)
(* Stats.                                                                  *)
(***************************************************************************)
RECURSIVE sumLen(_, _)
sumLen(revValues, i) ==
    IF i > Len(revValues) THEN 0
    ELSE Len(revValues[i]) + sumLen(revValues, i + 1)

\* Storage size of one family: the shared blocks, and the dynamic blocks with
\* their slice header and pointers.
blocksStorageSize(sharedLen, dynamicLen) ==
    (IF sharedLen > 0 THEN sharedLen * blockSize * 4 ELSE 0)
    + (IF dynamicLen > 0 THEN 3 * 8 + dynamicLen * blockSize * 4 + dynamicLen * 8 ELSE 0)

Stats(m) ==
    LET v4SharedLen == m.shared[v4LPM + 1]
        v6SharedLen == m.shared[v6LPM + 1]
        v4DynamicLen == Len(m.dynamic[v4LPM + 1])
        v6DynamicLen == Len(m.dynamic[v6LPM + 1])
        v4StorageSize == blocksStorageSize(v4SharedLen, v4DynamicLen)
        v6StorageSize == blocksStorageSize(v6SharedLen, v6DynamicLen)
        valStorageSize ==
            (IF m.sharedValueCount > 0 /\ m.sharedValuesSlotSize > 0
             THEN m.sharedValueCount * m.sharedValuesSlotSize ELSE 0)
            + (IF Len(m.revValues) > 0
               THEN sumLen(m.revValues, 1) + Len(m.revValues) * 2 * 8 + 3 * 8
                    + 8 * 8 + Len(m.revValues) * 32 + Len(m.revValues) * 4
               ELSE 0)
    IN  [IPv4Blocks |-> v4SharedLen + v4DynamicLen,
         IPv6Blocks |-> v6SharedLen + v6DynamicLen,
         IPv4StorageSize |-> v4StorageSize,
         IPv6StorageSize |-> v6StorageSize,
         ValuesStorage |-> valStorageSize,
         TotalSize |-> v4StorageSize + v6StorageSize + valStorageSize]

(***************************************************************************)
(* Inputs.                                                                 *)
(***************************************************************************)
V6Zero == [i \in 1 .. 16 |-> 0]

\* 2001:db8::
V6Doc == [i \in 1 .. 16 |-> IF i = 1 THEN 32 ELSE IF i = 2 THEN 1
                            ELSE IF i = 3 THEN 13 ELSE IF i = 4 THEN 184 ELSE 0]

\* ::ffff:10.0.0.0
V6Mapped == [i \in 1 .. 16 |-> IF i \in {11, 12} THEN 255 ELSE IF i = 13 THEN 10 ELSE 0]

Prefixes ==
    { [addr |-> <<0, 0, 0, 0>>, bits |-> 0],
      [addr |-> <<10, 0, 0, 0>>, bits |-> 8],
      [addr |-> <<10, 0, 0, 0>>, bits |-> 16],
      [addr |-> <<10, 0, 1, 0>>, bits |-> 24],
      [addr |-> <<10, 0, 1, 128>>, bits |-> 25],
      [addr |-> V6Zero, bits |-> 0],
      [addr |-> V6Doc, bits |-> 32],
      [addr |-> V6Mapped, bits |-> 104] }

Values == { <<>>, <<97>> }

ProbeBytes == {0, 1, 10, 128}

V4Probes == {<<a, b, c, d>> : a \in {1, 10}, b \in ProbeBytes, c \in ProbeBytes, d \in ProbeBytes}

V6Probes ==
    {[base EXCEPT ![i] = b] : base \in {V6Zero, V6Doc, V6Mapped},
                               i \in {1, 2, 4, 5, 11, 13, 14, 16}, b \in ProbeBytes}

Probes == V4Probes \cup V6Probes

\* Values at and beyond the longest length a value slot can hold.
V255 == [i \in 1 .. 255 |-> 120]

V256 == [i \in 1 .. 256 |-> 120]

\* The inserts of the behaviours that pack and then try loads.
PackPrefixes ==
    { [addr |-> <<10, 0, 0, 0>>, bits |-> 8],
      [addr |-> V6Doc, bits |-> 32] }

PackValues == { <<97>>, V255, V256 }

\* The inserts of the behaviours with a second trie on the same buffer.
SharedPrefixes ==
    { [addr |-> <<10, 0, 0, 0>>, bits |-> 8],
      [addr |-> <<10, 0, 0, 0>>, bits |-> 16],
      [addr |-> V6Doc, bits |-> 32] }

\* The header of a buffer, with the length of the buffer.
Header(st) ==
    [size |-> st.size, Magic |-> st.Magic, Version |-> st.Version,
     V4BlockCount |-> st.V4BlockCount, V6BlockCount |-> st.V6BlockCount,
     ValueCount |-> st.ValueCount, ValueSlotSize |-> st.ValueSlotSize,
     V4BlocksOffset |-> st.V4BlocksOffset, V6BlocksOffset |-> st.V6BlocksOffset,
     ValuesOffset |-> st.ValuesOffset]

\* The byte slices handed to NewWithSharedStorage: the packed buffer h, cuts
\* of it, and copies of it with header fields overwritten.
Buffers(h) ==
    {h}
    \cup {[h EXCEPT !.size = n] :
             n \in {0, headerSize - 1, headerSize, h.V6BlocksOffset - 1,
                    h.V6BlocksOffset, h.ValuesOffset - 1, h.ValuesOffset, h.size - 1}}
    \cup {[h EXCEPT !.Magic = 0], [h EXCEPT !.Version = 0], [h EXCEPT !.Version = 2],
          [h EXCEPT !.Magic = 0, !.Version = 2],
          [h EXCEPT !.size = headerSize - 1, !.Magic = 0],
          [h EXCEPT !.Magic = 0, !.V4BlockCount = h.V4BlockCount + 1],
          [h EXCEPT !.Version = 2, !.ValueCount = h.ValueCount + 1]}
    \cup {[h EXCEPT !.V4BlockCount = n] : n \in {0, h.V4BlockCount + 1}}
    \cup {[h EXCEPT !.V6BlockCount = n] : n \in {0, h.V6BlockCount + 1}}
    \cup {[h EXCEPT !.ValueCount = n] : n \in {0, h.ValueCount + 1}}
    \cup {[h EXCEPT !.ValueSlotSize = n] : n \in {0, h.ValueSlotSize + 1}}
    \cup {[h EXCEPT !.V4BlocksOffset = n] : n \in {0, h.V4BlocksOffset + 1}}
    \cup {[h EXCEPT !.V6BlocksOffset = n] : n \in {headerSize, h.V6BlocksOffset + 1}}
    \cup {[h EXCEPT !.ValuesOffset = n] : n \in {headerSize, h.ValuesOffset + 1}}
    \cup {[h EXCEPT !.V4BlockCount = 0, !.V4BlocksOffset = h.size + 1],
          [h EXCEPT !.V6BlockCount = 0, !.V6BlocksOffset = h.size + 1],
          [h EXCEPT !.ValueCount = 0, !.ValuesOffset = h.size + 1],
          [h EXCEPT !.ValueSlotSize = 0, !.ValuesOffset = h.size + 1]}

\* The inserts of the behaviours with concurrent lookups, the goroutines
\* that look up, and the addresses they look up.
ReadPrefixes ==
    { [addr |-> <<10, 0, 0, 0>>, bits |-> 16],
      [addr |-> V6Doc, bits |-> 32] }

Readers == {1, 2}

ReadAddrs == { <<10, 0, 0, 1>>, <<1, 1, 1, 1>>, V6Doc }

(***************************************************************************)
(* The state machine: one trie, built by New(), by inserts and by          *)
(* pack-and-load round trips.  inserted is the list of the inserts made so *)
(* far, loads the number of round trips and loadedAt the number of inserts *)
(* made before the last round trip (-1 when there was none).               *)
(***************************************************************************)
VARIABLES lpm, storage, inserted, loads, loadedAt

\* packed is what the last call of PackToSharedStorage on the trie returned,
\* loadResult what the last call of NewWithSharedStorage on a byte slice that
\* was not kept returned, reader a second trie loaded from the buffer of
\* the first one, and reads the lookups in progress, one per goroutine.
VARIABLES packed, loadResult, reader, reads

\* coded is the last application of the slot codec: the operation, its
\* arguments and the 32-bit word.
VARIABLES coded

\* writer is the position of an Insert that runs one step at a time beside
\* the lookups.
VARIABLES writer

vars ==
    <<lpm, storage, inserted, loads, loadedAt, packed, loadResult, reader, reads, coded,
      writer>>

\* The state outside the one trie.
others == <<packed, loadResult, reader, reads, coded, writer>>

NoPack == [called |-> FALSE, err |-> FALSE, storage |-> NoStorage]

NoLoad == [called |-> FALSE, buf |-> Header(NoStorage), status |-> "nil", lpm |-> NilLPM]

\* No Insert in steps is running.
NoWriter ==
    [pc |-> "idle", net |-> [addr |-> <<>>, bits |-> 0], valueIdx |-> 0, idx |-> 0,
     blockIdx |-> 0, oldVal |-> ZeroWord, newBlockIdx |-> 0]

\* No application of the codec yet.
NoCode == [op |-> "none", valueIdx |-> 0, prefixLen |-> 0, blockIdx |-> 0, word |-> ZeroWord]

Idle == [pc |-> "idle", addr |-> <<>>, blockIdx |-> 0, idx |-> 0, result |-> NotFound]

\* The trie with the buffer behind its shared tier.
T == [lpm |-> lpm, storage |-> storage]

Init ==
    /\ lpm = New
    /\ storage = NoStorage
    /\ inserted = <<>>
    /\ loads = 0
    /\ loadedAt = -1
    /\ packed = NoPack
    /\ loadResult = NoLoad
    /\ reader = NilLPM
    /\ reads = [r \in Readers |-> Idle]
    /\ coded = NoCode
    /\ writer = NoWriter

Insert(net, value) ==
    /\ Len(inserted) + loads < MaxOps
    /\ LET t1 == InsertOp(T, net, value)
       IN  /\ lpm' = t1.lpm
           /\ storage' = t1.storage
    /\ inserted' = Append(inserted, [net |-> net, value |-> value])
    /\ UNCHANGED <<loads, loadedAt>>
    /\ UNCHANGED others

\* storage, err := lpm.PackToSharedStorage(); lpm2, err := NewWithSharedStorage(storage)
PackAndLoad ==
    /\ Len(inserted) + loads < MaxOps
    /\ loads < MaxLoads
    /\ LET pk == PackToSharedStorage(T)
           ld == NewWithSharedStorage(pk.storage)
       IN  /\ ~pk.err
           /\ ~ld.err
           /\ lpm' = ld.lpm
           /\ storage' = pk.storage
    /\ loads' = loads + 1
    /\ loadedAt' = Len(inserted)
    /\ UNCHANGED inserted
    /\ UNCHANGED others

Next ==
    \/ \E net \in Prefixes, value \in Values : Insert(net, value)
    \/ PackAndLoad

Spec == Init /\ [][Next]_vars

(***************************************************************************)
(* Pack on its own, and loads of byte slices: a trie is built, packed     *)
(* once, and NewWithSharedStorage is tried once on the buffer, on a cut of *)
(* it or on a copy with an overwritten header.                             *)
(***************************************************************************)
BuildStep(net, value) ==
    /\ ~packed.called
    /\ Insert(net, value)

RoundTrip ==
    /\ ~packed.called
    /\ PackAndLoad

\* storage, err := lpm.PackToSharedStorage()
Pack ==
    /\ ~packed.called
    /\ LET pk == PackToSharedStorage(T)
       IN  packed' = [called |-> TRUE, err |-> pk.err, storage |-> pk.storage]
    /\ UNCHANGED <<lpm, storage, inserted, loads, loadedAt, loadResult, reader, reads, coded,
                   writer>>

\* lpm2, err := NewWithSharedStorage(st)
LoadAttempt(st) ==
    /\ packed.called
    /\ ~packed.err
    /\ ~loadResult.called
    /\ loadResult' = [called |-> TRUE, buf |-> Header(st), status |-> loadStatus(st),
                      lpm |-> NewWithSharedStorage(st).lpm]
    /\ UNCHANGED <<lpm, storage, inserted, loads, loadedAt, packed, reader, reads, coded,
                   writer>>

NextPack ==
    \/ \E net \in PackPrefixes, value \in PackValues : BuildStep(net, value)
    \/ RoundTrip
    \/ Pack
    \/ \E st \in Buffers(packed.storage) : LoadAttempt(st)

SpecPack == Init /\ [][NextPack]_vars

(***************************************************************************)
(* A copy of the trie: the trie is packed, a second trie is loaded from    *)
(* the buffer PackToSharedStorage returned, and an insert is made into it  *)
(* while the first trie is kept.                                           *)
(***************************************************************************)
\* Mutant of packTarget: PackToSharedStorage hands out the buffer the trie
\* was loaded from when it already holds what is to be packed.
packTarget_alias == "same"

\* storage := make([]byte, totalSize): the buffer PackToSharedStorage fills
\* and returns is a new one.
packTarget == "fresh"

\* The copy with the buffer behind its shared tier.
Copy == [lpm |-> loadResult.lpm, storage |-> packed.storage]

\* lpm2, err := NewWithSharedStorage(storage), on the slice just packed
LoadCopy ==
    /\ packed.called
    /\ LoadAttempt(packed.storage)

\* lpm2.Insert(net, value), the first insert into the copy; what it writes
\* into shared blocks lands in the buffer the copy was loaded from.
InsertCopy(net, value) ==
    /\ loadResult.called
    /\ loadResult.status = "nil"
    /\ loadResult.lpm.revValues = <<>>
    /\ LET t1 == InsertOp(Copy, net, value)
       IN  /\ loadResult' = [loadResult EXCEPT !.lpm = t1.lpm]
           /\ packed' = [packed EXCEPT !.storage = t1.storage]
           /\ storage' = IF packTarget = "same" /\ packed.storage = storage
                       THEN t1.storage ELSE storage
    /\ UNCHANGED <<lpm, inserted, loads, loadedAt, reader, reads, coded, writer>>

NextRepack ==
    \/ \E net \in PackPrefixes, value \in PackValues : BuildStep(net, value)
    \/ RoundTrip
    \/ Pack
    \/ LoadCopy
    \/ \E net \in PackPrefixes, value \in Values : InsertCopy(net, value)

SpecRepack == Init /\ [][NextRepack]_vars

(***************************************************************************)
(* Two tries on one buffer: the trie is packed and loaded, and a second    *)
(* trie, reader, is loaded from the same byte slice.  Inserts go through   *)
(* the first trie.                                                         *)
(***************************************************************************)
\* The second trie with the buffer behind its shared tier.
R == [lpm |-> reader, storage |-> storage]

FirstLoad ==
    /\ reader = NilLPM
    /\ PackAndLoad

\* lpm3, err := NewWithSharedStorage(storage), on the slice lpm was loaded from
LoadReader ==
    /\ loads > 0
    /\ reader = NilLPM
    /\ LET ld == NewWithSharedStorage(storage)
       IN  /\ ~ld.err
           /\ reader' = ld.lpm
    /\ UNCHANGED <<lpm, storage, inserted, loads, loadedAt, packed, loadResult, reads, coded,
                   writer>>

NextShared ==
    \/ \E net \in SharedPrefixes, value \in Values : Insert(net, value)
    \/ FirstLoad
    \/ LoadReader

SpecShared == Init /\ [][NextShared]_vars

(***************************************************************************)
(* Concurrent lookups: once the trie is built nobody inserts, and each     *)
(* goroutine runs Lookup one slot read at a time.                          *)
(***************************************************************************)
Quiet == \A r \in Readers : reads[r] = Idle

Prepare(net, value) ==
    /\ Quiet
    /\ Insert(net, value)

PrepareLoad ==
    /\ Quiet
    /\ PackAndLoad

\* Mutant of setBlockIdx: the cursor of the walk is one field for all goroutines.
setBlockIdx_shared(rs, r, blockIdx) ==
    [q \in Readers |-> [rs[q] EXCEPT !.blockIdx = blockIdx]]

\* blockIdx = decodeBlockRef(value), on the local variable of the call.
setBlockIdx(rs, r, blockIdx) == [rs EXCEPT ![r].blockIdx = blockIdx]

\* The call Lookup(addr) by goroutine r: proto, blockIdx := 0.
LookupCall(r, addr) ==
    /\ reads[r].pc # "walk"
    /\ reads' = setBlockIdx([reads EXCEPT ![r] = [Idle EXCEPT !.pc = "walk", !.addr = addr]],
                            r, 0)
    /\ UNCHANGED <<lpm, storage, inserted, loads, loadedAt, packed, loadResult, reader, coded,
                   writer>>

\* One iteration of the loop of Lookup by goroutine r, with the return that
\* ends the call.
LookupStep(r) ==
    /\ reads[r].pc = "walk"
    /\ LET rd == reads[r]
           value == getValue(T, protoOf(rd.addr), rd.blockIdx, rd.addr[rd.idx + 1])
       IN  reads' =
             IF isBlockRef(value)
             THEN IF rd.idx + 1 < Len(rd.addr)
                  THEN setBlockIdx([reads EXCEPT ![r].idx = rd.idx + 1], r,
                                   decodeBlockRef(value))
                  ELSE [reads EXCEPT ![r].pc = "done", ![r].result = NotFound]
             ELSE IF isInvalid(value)
             THEN [reads EXCEPT ![r].pc = "done", ![r].result = NotFound]
             ELSE [reads EXCEPT ![r].pc = "done",
                                ![r].result = getValueByIndex(T, decodeValue(value).valueIdx)]
    /\ UNCHANGED <<lpm, storage, inserted, loads, loadedAt, packed, loadResult, reader, coded,
                   writer>>

NextReaders ==
    \/ \E net \in ReadPrefixes, value \in Values : Prepare(net, value)
    \/ PrepareLoad
    \/ \E r \in Readers, addr \in ReadAddrs : LookupCall(r, addr)
    \/ \E r \in Readers : LookupStep(r)

SpecReaders == Init /\ [][NextReaders]_vars

(***************************************************************************)
(* An Insert beside the lookups: nothing in the code orders the two, so    *)
(* the writer runs one statement of its loop at a time and the goroutines  *)
(* that look up read slots in between.                                     *)
(***************************************************************************)
\* The block index is one getValue can index: below len(shared) + len(dynamic).
hasBlock(t, proto, blockIdx) ==
    blockIdx < t.lpm.shared[proto + 1] + Len(t.lpm.dynamic[proto + 1])

\* Mutant of createOrder: the block is appended before the slot refers to it.
createOrder_appendFirst == <<"append", "ref">>

\* The order of the two writes of the else branch of the walk: the parent
\* slot takes the reference, then the block is appended.
createOrder == <<"ref", "append">>

\* Insert(net, value) up to the loop: the value is interned.
WriterCall(net, value) ==
    /\ writer.pc = "idle"
    /\ Len(inserted) + loads < MaxOps
    /\ LET a == addValue(lpm, value)
       IN  /\ lpm' = a.lpm
           /\ writer' = [NoWriter EXCEPT !.pc = "walk", !.net = net, !.valueIdx = a.valueIdx]
           /\ inserted' = Append(inserted, [net |-> net, value |-> value])
    /\ UNCHANGED <<storage, loads, loadedAt, packed, loadResult, reader, reads, coded>>

\* One iteration of the loop of Insert up to its first write: the terminal
\* range and the return, the descent into a child, or the choice of the
\* index of a new block.
WriterStep ==
    /\ writer.pc = "walk"
    /\ LET proto == protoOf(writer.net.addr)
           inBlockIdx == writer.net.addr[writer.idx + 1]
           tail == (writer.idx + 1) * 8 - writer.net.bits
           currentVal == getValue(T, proto, writer.blockIdx, inBlockIdx)
       IN  IF tail >= 0
           THEN LET mask == tailMask(tail)
                    startIdx == rangeStart(inBlockIdx, mask)
                    endIdx == BitOr(startIdx, 255 - mask)
                    t1 == propagateValue(T, proto, writer.blockIdx, writer.valueIdx,
                                         writer.net.bits, startIdx, endIdx)
                IN  /\ lpm' = t1.lpm
                    /\ storage' = t1.storage
                    /\ writer' = NoWriter
           ELSE /\ UNCHANGED <<lpm, storage>>
                /\ writer' =
                     IF isBlockRef(currentVal)
                     THEN [writer EXCEPT !.idx = writer.idx + 1,
                                         !.blockIdx = decodeBlockRef(currentVal)]
                     ELSE [writer EXCEPT !.pc = "create1", !.oldVal = currentVal,
                                         !.newBlockIdx = lpm.shared[proto + 1]
                                                         + Len(lpm.dynamic[proto + 1])]
    /\ UNCHANGED <<inserted, loads, loadedAt, packed, loadResult, reader, reads, coded>>

\* One of the two writes that create a child block, in the order of createOrder.
WriterCreate ==
    /\ writer.pc \in {"create1", "create2"}
    /\ LET proto == protoOf(writer.net.addr)
           which == IF writer.pc = "create1" THEN createOrder[1] ELSE createOrder[2]
           t1 == IF which = "ref"
                 THEN setValue(T, proto, writer.blockIdx, writer.net.addr[writer.idx + 1],
                               encodeBlockRef(writer.newBlockIdx))
                 ELSE [T EXCEPT !.lpm.dynamic[proto + 1] =
                                   Append(lpm.dynamic[proto + 1], blockWithValue(writer.oldVal))]
       IN  /\ lpm' = t1.lpm
           /\ storage' = t1.storage
    /\ writer' = IF writer.pc = "create1"
                 THEN [writer EXCEPT !.pc = "create2"]
                 ELSE [writer EXCEPT !.pc = "walk", !.idx = writer.idx + 1,
                                     !.blockIdx = writer.newBlockIdx]
    /\ UNCHANGED <<inserted, loads, loadedAt, packed, loadResult, reader, reads, coded>>

\* One iteration of the loop of Lookup by goroutine r beside the writer:
\* indexing the store with a block index it does not have panics.
ReaderStep(r) ==
    /\ reads[r].pc = "walk"
    /\ IF hasBlock(T, protoOf(reads[r].addr), reads[r].blockIdx)
       THEN LookupStep(r)
       ELSE /\ reads' = [reads EXCEPT ![r].pc = "panic"]
            /\ UNCHANGED <<lpm, storage, inserted, loads, loadedAt, packed, loadResult,
                           reader, coded, writer>>

\* The goroutines that look up beside the writer.
Racers == {1}

NextWriter ==
    \/ \E net \in ReadPrefixes, value \in Values : WriterCall(net, value)
    \/ WriterStep
    \/ WriterCreate
    \/ \E r \in Racers, addr \in ReadAddrs : LookupCall(r, addr)
    \/ \E r \in Racers : ReaderStep(r)

SpecWriter == Init /\ [][NextWriter]_vars

(***************************************************************************)
(* One trie again, built from prefixes at the boundaries of the walk of    *)
(* Insert: length 0, byte-aligned lengths, lengths inside a byte, and the  *)
(* last two bits of an address.                                            *)
(***************************************************************************)
\* 2001:db8::2
V6Host == [V6Doc EXCEPT ![16] = 2]

TriePrefixes4 ==
    { [addr |-> <<0, 0, 0, 0>>, bits |-> 0],
      [addr |-> <<10, 0, 0, 0>>, bits |-> 8],
      [addr |-> <<10, 0, 0, 0>>, bits |-> 15],
      [addr |-> <<10, 0, 1, 0>>, bits |-> 24],
      [addr |-> <<10, 0, 1, 2>>, bits |-> 31] }

TriePrefixes6 ==
    { [addr |-> V6Zero, bits |-> 0],
      [addr |-> V6Host, bits |-> 127] }

\* Every prefix with one value, and two of them with a second value.
TrieInputs ==
    {[net |-> net, value |-> <<97>>] : net \in TriePrefixes4 \cup TriePrefixes6}
    \cup {[net |-> net, value |-> <<>>] : net \in {p \in TriePrefixes4 : p.bits \in {8, 24}}}

\* Addresses under and beside the prefixes of TrieInputs.
TrieProbes ==
    { <<10, 0, 1, 2>>, <<10, 0, 1, 3>>, <<10, 0, 1, 4>>, <<10, 0, 0, 0>>,
      <<10, 1, 0, 0>>, <<10, 2, 0, 0>>, <<1, 1, 1, 1>>,
      V6Host, [V6Doc EXCEPT ![16] = 3], [V6Doc EXCEPT ![16] = 4], V6Doc,
      [V6Doc EXCEPT ![5] = 1], V6Zero }

NextTrie ==
    \/ \E in \in TrieInputs : Insert(in.net, in.value)
    \/ PackAndLoad

SpecTrie == Init /\ [][NextTrie]_vars

(***************************************************************************)
(* One trie built from prefixes given with bits set beyond their length,   *)
(* as netip.MustParsePrefix keeps them, beside prefixes given masked.      *)
(***************************************************************************)
HostPrefixes ==
    { [addr |-> <<193, 168, 9, 1>>, bits |-> 8],
      [addr |-> <<192, 168, 1, 0>>, bits |-> 18],
      [addr |-> <<192, 168, 0, 0>>, bits |-> 16],
      [addr |-> <<192, 168, 129, 9>>, bits |-> 17],
      [addr |-> V6Host, bits |-> 12] }

HostInputs == {[net |-> net, value |-> value] : net \in HostPrefixes, value \in Values}

NextHost ==
    \/ \E in \in HostInputs : Insert(in.net, in.value)
    \/ PackAndLoad

SpecHost == Init /\ [][NextHost]_vars

(***************************************************************************)
(* The slot codec on its own: one application of encodeValue or of         *)
(* encodeBlockRef to arguments from the ends of their ranges, or one       *)
(* 32-bit word read from a slot, whatever it holds.                        *)
(***************************************************************************)
ValueIdxs == {0, 1, 255, 256, 65535, TwoTo24 - 1}

PrefixLens == 0 .. 128

\* Block indices up to 2^30 - 1.
RefIdxs == {0, 1, 255, TwoTo24 - 1, TwoTo24, 64 * TwoTo24 - 1}

Words == {<<hi, lo>> : hi \in 0 .. 255, lo \in {0, 1, TwoTo24 - 1}}

EncodeValue(valueIdx, prefixLen) ==
    /\ coded = NoCode
    /\ coded' = [op |-> "encodeValue", valueIdx |-> valueIdx, prefixLen |-> prefixLen,
                 blockIdx |-> 0, word |-> encodeValue(valueIdx, prefixLen)]
    /\ UNCHANGED <<lpm, storage, inserted, loads, loadedAt, packed, loadResult, reader, reads,
                   writer>>

EncodeBlockRef(blockIdx) ==
    /\ coded = NoCode
    /\ coded' = [op |-> "encodeBlockRef", valueIdx |-> 0, prefixLen |-> 0,
                 blockIdx |-> blockIdx, word |-> encodeBlockRef(blockIdx)]
    /\ UNCHANGED <<lpm, storage, inserted, loads, loadedAt, packed, loadResult, reader, reads,
                   writer>>

\* A word read from a slot of a block.
ReadWord(w) ==
    /\ coded = NoCode
    /\ coded' = [op |-> "word", valueIdx |-> 0, prefixLen |-> 0, blockIdx |-> 0, word |-> w]
    /\ UNCHANGED <<lpm, storage, inserted, loads, loadedAt, packed, loadResult, reader, reads,
                   writer>>

NextCodec ==
    \/ \E valueIdx \in ValueIdxs, prefixLen \in PrefixLens : EncodeValue(valueIdx, prefixLen)
    \/ \E blockIdx \in RefIdxs : EncodeBlockRef(blockIdx)
    \/ \E w \in Words : ReadWord(w)

SpecCodec == Init /\ [][NextCodec]_vars

(***************************************************************************)
(* The slot codec at the end of the index spaces: the calls Insert makes   *)
(* when the value table holds 2^24 values (addValue returns                *)
(* sharedValueCount + len(revValues)) or a family holds 2^30 blocks        *)
(* (newBlockIdx is len(shared) + len(dynamic)).                            *)
(***************************************************************************)
ValueIdxsOver == {TwoTo24 - 1, TwoTo24, TwoTo24 + 1}

RefIdxsOver == {64 * TwoTo24 - 1, 64 * TwoTo24}

NextOverflow ==
    \/ \E valueIdx \in ValueIdxsOver, prefixLen \in PrefixLens :
          EncodeValue(valueIdx, prefixLen)
    \/ \E blockIdx \in RefIdxsOver : EncodeBlockRef(blockIdx)

SpecOverflow == Init /\ [][NextOverflow]_vars

(***************************************************************************)
(* The data set of ExampleLPM_Insert (src/README.md), in its order; the    *)
(* values are numbered in place of their names.                            *)
(***************************************************************************)
V6Of(b) == [i \in 1 .. 16 |-> IF i <= Len(b) THEN b[i] ELSE 0]

ExampleData ==
    << [net |-> [addr |-> <<192, 168, 1, 0>>, bits |-> 18], value |-> <<1>>],
       [net |-> [addr |-> <<10, 45, 19, 0>>, bits |-> 24], value |-> <<2>>],
       [net |-> [addr |-> <<10, 4, 1, 0>>, bits |-> 24], value |-> <<3>>],
       [net |-> [addr |-> <<0, 0, 0, 0>>, bits |-> 0], value |-> <<4>>],
       [net |-> [addr |-> <<192, 168, 1, 128>>, bits |-> 25], value |-> <<5>>],
       [net |-> [addr |-> <<8, 8, 8, 0>>, bits |-> 24], value |-> <<6>>],
       [net |-> [addr |-> <<1, 1, 1, 0>>, bits |-> 24], value |-> <<7>>],
       [net |-> [addr |-> <<203, 0, 113, 0>>, bits |-> 24], value |-> <<8>>],
       [net |-> [addr |-> V6Zero, bits |-> 0], value |-> <<9>>],
       [net |-> [addr |-> V6Doc, bits |-> 32], value |-> <<10>>],
       [net |-> [addr |-> V6Of(<<32, 1, 13, 184, 0, 1>>), bits |-> 48], value |-> <<11>>],
       [net |-> [addr |-> V6Of(<<32, 1, 13, 184, 0, 2>>), bits |-> 48], value |-> <<12>>],
       [net |-> [addr |-> V6Of(<<254, 128>>), bits |-> 10], value |-> <<13>>],
       [net |-> [addr |-> V6Of(<<32, 1, 72, 96>>), bits |-> 32], value |-> <<14>>],
       [net |-> [addr |-> V6Of(<<38, 6, 71, 0>>), bits |-> 32], value |-> <<15>>] >>

(***************************************************************************)
(* Vocabulary of the properties.                                           *)
(***************************************************************************)
Min(a, b) == IF a < b THEN a ELSE b

\* The number of bits of byte k (1-based) that lie beyond the prefix length.
HostBits(net, k) == Max(0, Min(8, 8 * k - net.bits))

\* The address a lies in the prefix net.
Contains(net, a) ==
    /\ Len(a) = Len(net.addr)
    /\ \A k \in 1 .. Len(a) :
          a[k] \div Pow2(HostBits(net, k)) = net.addr[k] \div Pow2(HostBits(net, k))

\* The base address of a prefix: the bits beyond the prefix length cleared.
Base(net) ==
    [k \in 1 .. Len(net.addr) |->
        (net.addr[k] \div Pow2(HostBits(net, k))) * Pow2(HostBits(net, k))]

SameNet(p, q) == p.bits = q.bits /\ Base(p) = Base(q)

\* q is strictly more specific than p: longer, and inside p.
Finer(q, p) == q.bits > p.bits /\ Contains(p, Base(q))

Found(v) == [value |-> v, ok |-> TRUE]

NumInserted == Len(inserted)

Last == inserted[NumInserted]

\* The last operation was an insert.
AfterInsert == NumInserted > 0 /\ loadedAt < NumInserted

\* The addresses of net that no strictly more specific inserted prefix contains.
Uncovered(net) ==
    {a \in Probes : /\ Contains(net, a)
                    /\ \A i \in 1 .. NumInserted :
                          ~(Finer(inserted[i].net, net) /\ Contains(inserted[i].net, a))}

\* The answer longest-prefix matching gives for address a: the value of the
\* longest inserted prefix that contains a, the last inserted one on a tie.
Matches(a) == {i \in 1 .. NumInserted : Contains(inserted[i].net, a)}

Expected(a) ==
    IF Matches(a) = {} THEN NotFound
    ELSE LET best == CHOOSE i \in Matches(a) :
                        \A j \in Matches(a) :
                           \/ inserted[j].net.bits < inserted[i].net.bits
                           \/ inserted[j].net.bits = inserted[i].net.bits /\ j <= i
         IN  Found(inserted[best].value)

\* The trie New() becomes by the inserts of seq, in order.
RECURSIVE BuildFrom(_, _, _)
BuildFrom(t, seq, i) ==
    IF i > Len(seq) THEN t
    ELSE BuildFrom(InsertOp(t, seq[i].net, seq[i].value), seq, i + 1)

Build(seq) == BuildFrom([lpm |-> New, storage |-> NoStorage], seq, 1)

\* seq in descending order of prefix length.
RECURSIVE SortDesc(_)
SortDesc(seq) ==
    IF seq = <<>> THEN <<>>
    ELSE LET longest == CHOOSE b \in {seq[i].net.bits : i \in 1 .. Len(seq)} :
                           \A i \in 1 .. Len(seq) : seq[i].net.bits <= b
         IN  SelectSeq(seq, LAMBDA e : e.net.bits = longest)
             \o SortDesc(SelectSeq(seq, LAMBDA e : e.net.bits # longest))

DistinctPrefixes ==
    \A i, j \in 1 .. NumInserted : i # j => ~SameNet(inserted[i].net, inserted[j].net)

\* The trie after the step, with its buffer.
TNext == [lpm |-> lpm', storage |-> storage']

\* The step is an insert.
InsertStep == inserted' # inserted

\* What load(pack(T)) gives.
Reloaded ==
    LET pk == PackToSharedStorage(T)
        ld == NewWithSharedStorage(pk.storage)
    IN  [err |-> pk.err \/ ld.err, t |-> [lpm |-> ld.lpm, storage |-> pk.storage]]

(***************************************************************************)
(* Properties.                                                             *)
(***************************************************************************)

\* C1: after any sequence of inserts into New(), the lookup of every address
\* returns the value of the longest inserted prefix that contains it (the last
\* inserted one for a prefix inserted several times), and not-found exactly
\* when no inserted prefix contains it.
C1_LongestPrefixWins ==
    loads = 0 => \A a \in Probes : Lookup(T, a) = Expected(a)

\* C2: inserting pairwise distinct prefixes in any order gives, for every
\* address, the lookup result of inserting them in descending order of prefix
\* length.
C2_OrderIndependence ==
    (loads = 0 /\ DistinctPrefixes) =>
        LET sorted == Build(SortDesc(inserted))
        IN  \A a \in Probes : Lookup(T, a) = Lookup(sorted, a)

\* C3: immediately after insert(p, v), every address of p that no strictly
\* more specific inserted prefix contains looks up (v, true).
C3_InsertCoverage ==
    AfterInsert => \A a \in Uncovered(Last.net) : Lookup(T, a) = Found(Last.value)

\* C4: an address whose lookup was answered, before insert(p, v), by a
\* terminal of a prefix length strictly greater than the length of p has the
\* same lookup result after the insert.
C4_FinerNotClobbered ==
    [][InsertStep =>
         \A a \in Probes :
            LET w == lookupWalk(T, protoOf(a), a, 0, 0)
            IN  (/\ ~isBlockRef(w)
                 /\ ~isInvalid(w)
                 /\ decodeValue(w).prefixLen > inserted'[Len(inserted')].net.bits)
                => Lookup(TNext, a) = Lookup(T, a)]_vars

\* C4 witness: a coarser prefix was inserted after a finer one inside it, and
\* the base address of the finer one still looks up the finer one's value.
C4_Witness ==
    /\ AfterInsert
    /\ \E i \in 1 .. NumInserted - 1 :
          /\ Finer(inserted[i].net, Last.net)
          /\ inserted[i].value # Last.value
          /\ Lookup(T, Base(inserted[i].net)) = Found(inserted[i].value)

\* C5: when a prefix inserted before is inserted again with value v2, after
\* any other inserts, every address of it that no strictly more specific
\* inserted prefix contains looks up (v2, true).
C5_ReinsertOverwrites ==
    (/\ AfterInsert
     /\ \E i \in 1 .. NumInserted - 1 : SameNet(inserted[i].net, Last.net))
    => \A a \in Uncovered(Last.net) : Lookup(T, a) = Found(Last.value)

C7_FamilyIsolation ==
    [][InsertStep =>
         LET other == IF Is6(inserted'[Len(inserted')].net.addr) THEN v4LPM ELSE v6LPM
         IN  /\ packBlocks(TNext, other) = packBlocks(T, other)
             /\ \A a \in Probes :
                   protoOf(a) = other => Lookup(TNext, a) = Lookup(T, a)]_vars

\* C7 witness: both families hold prefixes, the last insert was ::/0 or an
\* IPv4-mapped IPv6 prefix, and lookups of both families are answered.
C7_Witness ==
    /\ AfterInsert
    /\ Is6(Last.net.addr)
    /\ Last.net.bits \in {0, 104}
    /\ \E i \in 1 .. NumInserted - 1 :
          /\ ~Is6(inserted[i].net.addr)
          /\ Lookup(T, Base(inserted[i].net)).ok
    /\ Lookup(T, Base(Last.net)).ok

\* C8: pack(T) and load(pack(T)) succeed, and every address looks up the same
\* (value, found) in load(pack(T)) as in T.
C8_PackLoadRoundTrip ==
    /\ ~Reloaded.err
    /\ \A a \in Probes : Lookup(Reloaded.t, a) = Lookup(T, a)

\* C9: a trie built by inserts, packed, loaded and given further inserts
\* answers every lookup as the trie New() becomes by all those inserts.
C9_PostLoadMutation ==
    LET single == Build(inserted)
    IN  \A a \in Probes : Lookup(T, a) = Lookup(single, a)

\* C10: every lookup on New() and on load(pack(New())) returns not-found, and
\* the trie loaded from pack(New()) takes inserts as New() does: the first
\* insert is found at its base address, and every lookup gives what it gives
\* on New() after the same inserts.
C10_EmptyTrie ==
    /\ NumInserted = 0 => \A a \in Probes : Lookup(T, a) = NotFound
    /\ (loadedAt = 0 /\ NumInserted = 1) =>
           Lookup(T, Base(Last.net)) = Found(Last.value)
    /\ loadedAt = 0 =>
           LET fresh == Build(inserted)
           IN  \A a \in Probes : Lookup(T, a) = Lookup(fresh, a)

\* C10 witness: the empty trie was packed and loaded, then took inserts, one
\* of which made a child block, and the last one is found.
C10_Witness ==
    /\ loadedAt = 0
    /\ NumInserted >= 1
    /\ Len(lpm.dynamic[v4LPM + 1]) + Len(lpm.dynamic[v6LPM + 1]) > 0
    /\ Lookup(T, Base(Last.net)) = Found(Last.value)

(***************************************************************************)
(* Vocabulary of the properties of pack, load and stats.                   *)
(***************************************************************************)
\* The number of values of the value table, shared and dynamic.
NumValues(t) == t.lpm.sharedValueCount + Len(t.lpm.revValues)

\* The bytes bound to value index i: the payload of slot i of the shared
\* values, or the dynamic value at i minus the shared count.
ValueAt(t, i) ==
    IF i < t.lpm.sharedValueCount
    THEN LET offset == i * t.lpm.sharedValuesSlotSize
         IN  SubSeq(t.storage.values, offset + 2, offset + 1 + t.storage.values[offset + 1])
    ELSE t.lpm.revValues[i - t.lpm.sharedValueCount + 1]

\* The step is a call of PackToSharedStorage on its own.
PackStep == packed' # packed

\* C11: pack returns an error, and no buffer, exactly when some value of the
\* value table, shared or dynamic, is longer than 255 bytes (a longest value
\* of exactly 255 bytes packs), and, error or not, the call leaves the
\* blocks, the values and every lookup result of the trie as they were.
C11_PackRejectsLongValues ==
    [][PackStep =>
         /\ packed'.err <=> \E i \in 0 .. NumValues(T) - 1 : Len(ValueAt(T, i)) > 255
         /\ packed'.err => packed'.storage = NoStorage
         /\ ~packed'.err => packed'.storage.size > 0
         /\ lpm' = lpm
         /\ storage' = storage
         /\ \A a \in Probes : Lookup(TNext, a) = Lookup(T, a)]_vars

\* C11 witness: a trie whose longest value has exactly 255 bytes, held in the
\* shared tier, was packed without error into slots of 256 bytes.
C11_Witness ==
    /\ packed.called
    /\ ~packed.err
    /\ lpm.sharedValueCount > 0
    /\ \E i \in 0 .. lpm.sharedValueCount - 1 : Len(ValueAt(T, i)) = 255
    /\ packed.storage.ValueSlotSize = 256

\* C12: load returns an error and no trie when the byte slice is shorter
\* than the 36-byte header, when the magic is not 0x4C504D00 and when the
\* version is not 1, checked in that order and before the regions: the error
\* is the one of the first failing header check, whatever the regions are.
C12_LoadRejectsBadHeader ==
    loadResult.called =>
        LET b == loadResult.buf
        IN  /\ b.size < headerSize => loadResult.status = "storage too small"
            /\ (b.size >= headerSize /\ b.Magic # magicNumber)
                  => loadResult.status = "invalid magic number"
            /\ (b.size >= headerSize /\ b.Magic = magicNumber /\ b.Version # currentVersion)
                  => loadResult.status = "unsupported version"
            /\ loadResult.status # "nil" => loadResult.lpm = NilLPM

\* C12 witness: a buffer of full length and good magic with version 2, whose
\* value count does not fit either, was refused for its version.
C12_Witness ==
    /\ loadResult.called
    /\ loadResult.buf.size >= headerSize
    /\ loadResult.buf.Magic = magicNumber
    /\ loadResult.buf.Version = 2
    /\ loadResult.buf.size
          < loadResult.buf.ValuesOffset + loadResult.buf.ValueCount * loadResult.buf.ValueSlotSize
    /\ loadResult.status = "unsupported version"
    /\ loadResult.lpm = NilLPM

\* The end of each region the header declares.
V4End(b) == b.V4BlocksOffset + blockSize * 4 * b.V4BlockCount

V6End(b) == b.V6BlocksOffset + blockSize * 4 * b.V6BlockCount

ValuesEnd(b) == b.ValuesOffset + b.ValueCount * b.ValueSlotSize

\* C13 (as claimed): load returns an error whenever a region the header
\* declares ends past the end of the byte slice.
C13_RegionsFitAsClaimed ==
    (/\ loadResult.called
     /\ \/ V4End(loadResult.buf) > loadResult.buf.size
        \/ V6End(loadResult.buf) > loadResult.buf.size
        \/ ValuesEnd(loadResult.buf) > loadResult.buf.size)
    => loadResult.status # "nil"

\* C13 (amended): load returns an error whenever a region of at least one
\* byte that the header declares ends past the end of the byte slice; so
\* after a successful load the trie views exactly the declared blocks and
\* value slots, and every shared block below the declared count and every
\* value slot of at least one byte below value_count lies inside the slice.
C13_RegionsFit ==
    loadResult.called =>
        LET b == loadResult.buf
        IN  /\ (b.V4BlockCount > 0 /\ V4End(b) > b.size) => loadResult.status # "nil"
            /\ (b.V6BlockCount > 0 /\ V6End(b) > b.size) => loadResult.status # "nil"
            /\ (b.ValueCount > 0 /\ b.ValueSlotSize > 0 /\ ValuesEnd(b) > b.size)
                  => loadResult.status # "nil"
            /\ loadResult.status = "nil" =>
                  /\ loadResult.lpm.shared = <<b.V4BlockCount, b.V6BlockCount>>
                  /\ loadResult.lpm.sharedValueCount = b.ValueCount
                  /\ loadResult.lpm.sharedValuesSlotSize = b.ValueSlotSize
                  /\ \A i \in 0 .. b.V4BlockCount - 1 :
                        b.V4BlocksOffset + blockSize * 4 * (i + 1) <= b.size
                  /\ \A i \in 0 .. b.V6BlockCount - 1 :
                        b.V6BlocksOffset + blockSize * 4 * (i + 1) <= b.size
                  /\ b.ValueSlotSize > 0 =>
                        /\ loadResult.lpm.sharedValues.len = b.ValueCount * b.ValueSlotSize
                        /\ \A i \in 0 .. b.ValueCount - 1 :
                              b.ValuesOffset + (i + 1) * b.ValueSlotSize <= b.size

\* C13 witness: a packed buffer with values, cut one byte short, was refused
\* for its value region after its header and block regions passed.
C13_Witness ==
    /\ loadResult.called
    /\ loadResult.buf.ValueCount > 0
    /\ V6End(loadResult.buf) <= loadResult.buf.size
    /\ ValuesEnd(loadResult.buf) = loadResult.buf.size + 1
    /\ loadResult.status = "storage too small for values"

(***************************************************************************)
(* Vocabulary of the properties of lookups and of tries on one buffer.     *)
(***************************************************************************)
\* Block blockIdx is a block of the block store of the trie.
BlockExists(t, proto, blockIdx) ==
    /\ blockIdx < t.lpm.shared[proto + 1] + Len(t.lpm.dynamic[proto + 1])
    /\ blockIdx < t.lpm.shared[proto + 1] => blockIdx < Len(t.storage.blocks[proto + 1])

\* The walk of Lookup from byte idx of addr on reads existing blocks only.
RECURSIVE WalkInBounds(_, _, _, _, _)
WalkInBounds(t, proto, addr, idx, blockIdx) ==
    /\ BlockExists(t, proto, blockIdx)
    /\ (isBlockRef(getValue(t, proto, blockIdx, addr[idx + 1])) /\ idx + 1 < Len(addr))
          => WalkInBounds(t, proto, addr, idx + 1,
                          decodeBlockRef(getValue(t, proto, blockIdx, addr[idx + 1])))

LookupInBounds(t, addr) == WalkInBounds(t, protoOf(addr), addr, 0, 0)

\* The number of slots Lookup reads from byte idx of addr on.
RECURSIVE SlotReads(_, _, _, _, _)
SlotReads(t, proto, addr, idx, blockIdx) ==
    IF isBlockRef(getValue(t, proto, blockIdx, addr[idx + 1])) /\ idx + 1 < Len(addr)
    THEN 1 + SlotReads(t, proto, addr, idx + 1,
                       decodeBlockRef(getValue(t, proto, blockIdx, addr[idx + 1])))
    ELSE 1

\* The lookup of every address on t completes: it reads existing blocks only,
\* at most one slot per byte of the address, and returns a value or not-found.
LookupsComplete(t) ==
    \A a \in Probes :
       /\ LookupInBounds(t, a)
       /\ SlotReads(t, protoOf(a), a, 0, 0) <= Len(a)
       /\ \/ Lookup(t, a) = NotFound
          \/ Lookup(t, a).ok

\* The second trie after the step, with the buffer.
RNext == [lpm |-> reader', storage |-> storage']

\* C14: in every state reached by New, Insert, PackToSharedStorage and
\* NewWithSharedStorage on a packed buffer, the lookup of every address on
\* every trie completes after at most 4 (IPv4) or 16 (IPv6) slot reads with a
\* value or not-found, and follows no reference to a block that is not there.
C14_LookupCannotFail ==
    /\ LookupsComplete(T)
    /\ reader # NilLPM => LookupsComplete(R)

\* C15: an insert through one of two tries loaded from the same buffer
\* changes no lookup result of the other and leaves the other with no slot
\* that refers to a block outside its block store.
C15_IndependentReaders ==
    [][(InsertStep /\ reader # NilLPM) =>
         \A a \in Probes :
            LookupInBounds(R, a) =>
               /\ LookupInBounds(RNext, a)
               /\ Lookup(RNext, a) = Lookup(R, a)]_vars

\* The length of the longest value of the value table, 0 when it is empty.
MaxLen(t) ==
    LET lens == {Len(ValueAt(t, i)) : i \in 0 .. NumValues(t) - 1} \cup {0}
    IN  CHOOSE n \in lens : \A k \in lens : k <= n

\* The trie was packed without error.
Packed == packed.called /\ ~packed.err

\* C16 (as claimed): in the buffer pack returns, value_slot_size is
\* max_len + 1 when value_count > 0, and 0 when value_count = 0.
C16_ValueSlotSizeAsClaimed ==
    Packed =>
        packed.storage.ValueSlotSize =
            IF packed.storage.ValueCount > 0 THEN MaxLen(T) + 1 ELSE 0

\* C16 (amended): in the buffer pack returns, value_slot_size is max_len + 1,
\* max_len being the length of the longest value, shared or dynamic, and 0
\* when there is no value: value_slot_size is 1 when value_count = 0.
C16_ValueSlotSize ==
    Packed =>
        /\ packed.storage.ValueSlotSize = MaxLen(T) + 1
        /\ packed.storage.ValueCount = 0 => packed.storage.ValueSlotSize = 1

\* C16 witness: a packed trie whose longest value is a shared one, longer
\* than every dynamic value.
C16_Witness ==
    /\ Packed
    /\ lpm.sharedValueCount > 0
    /\ Len(lpm.revValues) > 0
    /\ MaxLen(T) > maxDynamicLen(lpm.revValues, 1)
    /\ packed.storage.ValueSlotSize = MaxLen(T) + 1

\* C17: in every buffer pack returns, the header counts are the shared plus
\* dynamic block counts of each family and the shared plus dynamic value
\* count, v4_blocks_offset = 36, each next region starts where the one before
\* ends, the buffer ends with the value region, block i of the buffer is
\* block i of the trie and value slot i holds value i (shared first, then
\* dynamic), and the load of the buffer returns no error.
C17_PackedLayout ==
    Packed =>
        LET st == packed.storage
        IN  /\ st.V4BlockCount = lpm.shared[v4LPM + 1] + Len(lpm.dynamic[v4LPM + 1])
            /\ st.V6BlockCount = lpm.shared[v6LPM + 1] + Len(lpm.dynamic[v6LPM + 1])
            /\ st.ValueCount = NumValues(T)
            /\ st.V4BlocksOffset = 36
            /\ st.V6BlocksOffset = st.V4BlocksOffset + 1024 * st.V4BlockCount
            /\ st.ValuesOffset = st.V6BlocksOffset + 1024 * st.V6BlockCount
            /\ st.size = st.ValuesOffset + st.ValueCount * st.ValueSlotSize
            /\ Len(st.blocks[v4LPM + 1]) = st.V4BlockCount
            /\ Len(st.blocks[v6LPM + 1]) = st.V6BlockCount
            /\ Len(st.values) = st.ValueCount * st.ValueSlotSize
            /\ \A proto \in {v4LPM, v6LPM} :
                  \A i \in 0 .. Len(st.blocks[proto + 1]) - 1 :
                     st.blocks[proto + 1][i + 1] = getBlockRef(T, proto, i)
            /\ \A i \in 0 .. st.ValueCount - 1 :
                  /\ st.values[i * st.ValueSlotSize + 1] = Len(ValueAt(T, i))
                  /\ SubSeq(st.values, i * st.ValueSlotSize + 2,
                            i * st.ValueSlotSize + 1 + Len(ValueAt(T, i))) = ValueAt(T, i)
            /\ ~NewWithSharedStorage(st).err

\* C17 witness: a packed trie with shared and dynamic blocks in one family
\* and with shared and dynamic values.
C17_Witness ==
    /\ Packed
    /\ \E proto \in {v4LPM, v6LPM} :
          lpm.shared[proto + 1] > 0 /\ Len(lpm.dynamic[proto + 1]) > 0
    /\ lpm.sharedValueCount > 0
    /\ Len(lpm.revValues) > 0
    /\ packed.storage.size = packed.storage.ValuesOffset
                             + packed.storage.ValueCount * packed.storage.ValueSlotSize

\* Insert(net, value) on t has to descend, from byte idx of the address on,
\* through a slot that is not a block reference.
RECURSIVE Descends(_, _, _, _, _)
Descends(t, proto, net, idx, blockIdx) ==
    /\ (idx + 1) * 8 - net.bits < 0
    /\ \/ ~isBlockRef(getValue(t, proto, blockIdx, net.addr[idx + 1]))
       \/ Descends(t, proto, net, idx + 1,
                   decodeBlockRef(getValue(t, proto, blockIdx, net.addr[idx + 1])))

\* The block count Stats reports for the family of proto.
StatsBlocks(m, proto) == IF proto = v4LPM THEN Stats(m).IPv4Blocks ELSE Stats(m).IPv6Blocks

\* C18: Stats of load(pack(T)) reports the IPv4Blocks and IPv6Blocks of Stats
\* of T, and an insert into a loaded trie that has to descend through a slot
\* that is not a block reference strictly increases the block count Stats
\* reports for that family.
C18_StatsSurvivePackLoad ==
    /\ [](~Reloaded.err =>
            /\ Stats(Reloaded.t.lpm).IPv4Blocks = Stats(lpm).IPv4Blocks
            /\ Stats(Reloaded.t.lpm).IPv6Blocks = Stats(lpm).IPv6Blocks)
    /\ [][(InsertStep /\ loads > 0) =>
            LET net == inserted'[Len(inserted')].net
                proto == protoOf(net.addr)
            IN  Descends(T, proto, net, 0, 0)
                   => StatsBlocks(lpm', proto) > StatsBlocks(lpm, proto)]_vars

\* C18 witness: a trie with child blocks was packed and loaded, its block
\* counts are those Stats reported before, and an insert into it made a new
\* dynamic block below a shared one.
C18_Witness ==
    /\ loads > 0
    /\ AfterInsert
    /\ \E proto \in {v4LPM, v6LPM} :
          /\ lpm.shared[proto + 1] >= 2
          /\ Len(lpm.dynamic[proto + 1]) >= 1
          /\ StatsBlocks(lpm, proto) = lpm.shared[proto + 1] + Len(lpm.dynamic[proto + 1])

\* Every field of Stats a is at most the same field of Stats b.
StatsLeq(a, b) ==
    /\ a.IPv4Blocks <= b.IPv4Blocks
    /\ a.IPv6Blocks <= b.IPv6Blocks
    /\ a.IPv4StorageSize <= b.IPv4StorageSize
    /\ a.IPv6StorageSize <= b.IPv6StorageSize
    /\ a.ValuesStorage <= b.ValuesStorage
    /\ a.TotalSize <= b.TotalSize

\* C19: an insert into a trie made by New or by load decreases neither the
\* number of blocks of a family, nor the number of values, nor a field of
\* Stats, and leaves the bytes of every value index assigned before as they
\* were.
C19_MonotonicGrowth ==
    [][InsertStep =>
         /\ \A proto \in {v4LPM, v6LPM} :
               /\ lpm.shared[proto + 1] = lpm'.shared[proto + 1]
               /\ Len(lpm.dynamic[proto + 1]) <= Len(lpm'.dynamic[proto + 1])
         /\ NumValues(T) <= NumValues(TNext)
         /\ StatsLeq(Stats(lpm), Stats(lpm'))
         /\ \A i \in 0 .. NumValues(T) - 1 : ValueAt(TNext, i) = ValueAt(T, i)]_vars

\* C19 witness: a loaded trie with a shared value took an insert of a new
\* value that made a new block: the populations and the total size grew, and
\* the shared value kept its bytes.
C19_Witness ==
    /\ loads > 0
    /\ AfterInsert
    /\ lpm.sharedValueCount > 0
    /\ Len(lpm.revValues) > 0
    /\ \E proto \in {v4LPM, v6LPM} : Len(lpm.dynamic[proto + 1]) > 0
    /\ Stats(lpm).TotalSize > storage.size - headerSize
    /\ ValueAt(T, 0) = inserted[1].value

\* The step is a step of a lookup in progress.
ReadStep == reads' # reads

\* C20: Lookup writes no field of the trie nor of its buffer, and every
\* lookup that returns, however the slot reads of the goroutines interleave,
\* returns what Lookup of the same address returns when run alone.
C20_ConcurrentReaders ==
    [][ReadStep =>
         /\ lpm' = lpm
         /\ storage' = storage
         /\ \A r \in Readers :
               reads'[r].pc = "done" => reads'[r].result = Lookup(T, reads'[r].addr)]_vars

\* C20 witness: one goroutine has returned a value found below the root
\* while the other one is inside its walk, below the root too.
C20_Witness ==
    \E r, q \in Readers :
       /\ r # q
       /\ reads[r].pc = "done"
       /\ reads[r].result.ok
       /\ SlotReads(T, protoOf(reads[r].addr), reads[r].addr, 0, 0) > 1
       /\ reads[q].pc = "walk"
       /\ reads[q].idx > 0
       /\ reads[q].addr # reads[r].addr

(***************************************************************************)
(* Vocabulary of the properties of the block store and the value table.    *)
(***************************************************************************)
Families == {v4LPM, v6LPM}

Slots == 0 .. (blockSize - 1)

\* S + D of a family: the shared and the dynamic block counts.
NumBlocks(t, proto) == t.lpm.shared[proto + 1] + Len(t.lpm.dynamic[proto + 1])

BlockIdxs(t, proto) == 0 .. (NumBlocks(t, proto) - 1)

\* C21: in every state reached by New, Insert and pack-and-load round trips
\* of one trie, every block below S + D of a family is in its store, and
\* every slot that is a block reference holds an index in [0, S + D) of its
\* own family.
C21_BlockRefsValid ==
    \A proto \in Families :
       \A b \in BlockIdxs(T, proto) :
          /\ BlockExists(T, proto, b)
          /\ \A blk \in {getBlockRef(T, proto, b)} :
                \A s \in Slots :
                   isBlockRef(blk[s]) => decodeBlockRef(blk[s]) \in BlockIdxs(T, proto)

\* C21 witness: after a round trip, a slot of a shared block refers to a
\* block of the dynamic tier, and a block of the dynamic tier refers to
\* another one.
C21_Witness ==
    /\ loads = 1
    /\ \E proto \in Families :
          /\ lpm.shared[proto + 1] > 0
          /\ \E b \in 0 .. (lpm.shared[proto + 1] - 1), s \in Slots :
                /\ isBlockRef(getValue(T, proto, b, s))
                /\ decodeBlockRef(getValue(T, proto, b, s)) >= lpm.shared[proto + 1]
          /\ \E b \in lpm.shared[proto + 1] .. (NumBlocks(T, proto) - 1), s \in Slots :
                isBlockRef(getValue(T, proto, b, s))

\* The block count the header b declares for a family.
HeaderBlockCount(b, proto) == IF proto = v4LPM THEN b.V4BlockCount ELSE b.V6BlockCount

\* C22: every trie has at least one block per family, block 0.  New() gives
\* each family exactly one all-zero dynamic block and no shared block; a load
\* gives a family one all-zero dynamic block exactly when the header declares
\* no block for it, and otherwise an empty dynamic tier with the declared
\* shared blocks, so that block 0 is shared block 0.
C22_RootExists ==
    /\ \A proto \in Families :
          /\ NumBlocks(T, proto) >= 1
          /\ BlockExists(T, proto, 0)
    /\ (NumInserted = 0 /\ loads = 0) =>
          /\ lpm.shared = <<0, 0>>
          /\ lpm.dynamic = << <<LPMBlock>>, <<LPMBlock>> >>
    /\ (loads > 0 /\ loadedAt = NumInserted) =>
          \A proto \in Families :
             /\ lpm.shared[proto + 1] = HeaderBlockCount(storage, proto)
             /\ lpm.shared[proto + 1] >= 1
             /\ lpm.dynamic[proto + 1] = <<>>
    /\ (loadResult.called /\ loadResult.status = "nil") =>
          \A proto \in Families :
             /\ loadResult.lpm.shared[proto + 1] = HeaderBlockCount(loadResult.buf, proto)
             /\ loadResult.lpm.dynamic[proto + 1] =
                   IF HeaderBlockCount(loadResult.buf, proto) = 0 THEN <<LPMBlock>> ELSE <<>>
             /\ loadResult.lpm.shared[proto + 1] + Len(loadResult.lpm.dynamic[proto + 1]) >= 1

\* C22 witness: a load of a header that declares no IPv4 block and some IPv6
\* blocks gave a trie with one zero dynamic IPv4 block and no dynamic IPv6
\* block.
C22_Witness ==
    /\ loadResult.called
    /\ loadResult.status = "nil"
    /\ loadResult.buf.V4BlockCount = 0
    /\ loadResult.buf.V6BlockCount > 0
    /\ loadResult.lpm.shared = <<0, loadResult.buf.V6BlockCount>>
    /\ loadResult.lpm.dynamic = << <<LPMBlock>>, <<>> >>

\* The state beside the slots of the blocks: the block counts of the shared
\* tier and the value table.
Table(t) ==
    [shared |-> t.lpm.shared, sharedValueCount |-> t.lpm.sharedValueCount,
     sharedValuesSlotSize |-> t.lpm.sharedValuesSlotSize,
     sharedValues |-> t.lpm.sharedValues, values |-> t.lpm.values,
     revValues |-> t.lpm.revValues, bytes |-> t.storage.values]

\* c is what the creation of a child block for slot inBlockIdx of block
\* blockIdx, which held the word s, makes of t: one block more in the dynamic
\* tier of the family, at index S + D, with all slots equal to s; a reference
\* to it in the slot; every other slot, block and value as before; and the
\* lookup results found, the ones before the creation.
ChildCreated(t, c, proto, blockIdx, inBlockIdx, s, found) ==
    /\ c.blockIdx = NumBlocks(t, proto)
    /\ Len(c.t.lpm.dynamic[proto + 1]) = Len(t.lpm.dynamic[proto + 1]) + 1
    /\ Table(c.t) = Table(t)
    /\ getBlockRef(c.t, proto, c.blockIdx) = [k \in Slots |-> s]
    /\ isInvalid(s) => getBlockRef(c.t, proto, c.blockIdx) = LPMBlock
    /\ getBlockRef(c.t, proto, blockIdx) =
          [getBlockRef(t, proto, blockIdx) EXCEPT ![inBlockIdx] =
              encodeBlockRef(NumBlocks(t, proto))]
    /\ \A b \in BlockIdxs(t, proto) \ {blockIdx} :
          getBlockRef(c.t, proto, b) = getBlockRef(t, proto, b)
    /\ \A q \in Families \ {proto} :
          /\ c.t.lpm.dynamic[q + 1] = t.lpm.dynamic[q + 1]
          /\ c.t.storage.blocks[q + 1] = t.storage.blocks[q + 1]
    /\ \A a \in TrieProbes : Lookup(c.t, a) = found[a]

\* Every creation of a child block on the walk of Insert(net, _) on t from
\* byte idx on is as ChildCreated says; found holds the lookup results on t.
RECURSIVE CreationsOk(_, _, _, _, _, _)
CreationsOk(t, proto, net, idx, blockIdx, found) ==
    LET inBlockIdx == net.addr[idx + 1]
        s == getValue(t, proto, blockIdx, inBlockIdx)
    IN  IF (idx + 1) * 8 - net.bits >= 0 THEN TRUE
        ELSE IF isBlockRef(s)
        THEN CreationsOk(t, proto, net, idx + 1, decodeBlockRef(s), found)
        ELSE \A c \in {createBlock(t, proto, blockIdx, inBlockIdx, s)} :
                /\ ChildCreated(t, c, proto, blockIdx, inBlockIdx, s, found)
                /\ CreationsOk(c.t, proto, net, idx + 1, c.blockIdx, found)

\* C23: when Insert continues past a byte whose slot s is not a block
\* reference, it appends exactly one block to the dynamic tier, at logical
\* index S + D, with all 256 slots equal to s (all zero when s is empty),
\* and replaces s by a reference to that index; that step changes nothing
\* else and the lookup result of no address.
C23_ChildCreation ==
    \A found \in {[a \in TrieProbes |-> Lookup(T, a)]} :
       \A net \in TriePrefixes4 \cup TriePrefixes6 :
          CreationsOk(T, protoOf(net.addr), net, 0, 0, found)

\* C23 witness: the insert of 10.0.1.0/24 after 10.0.0.0/8 on a loaded trie
\* replaced the terminal of the /8 in the shared root block by a reference
\* to a new dynamic block, which holds copies of that terminal and a
\* reference to the next new block.
C23_Witness ==
    /\ loads = 1
    /\ NumInserted = 2
    /\ loadedAt = 1
    /\ inserted[1].net = [addr |-> <<10, 0, 0, 0>>, bits |-> 8]
    /\ inserted[2].net = [addr |-> <<10, 0, 1, 0>>, bits |-> 24]
    /\ lpm.shared[v4LPM + 1] = 1
    /\ getValue(T, v4LPM, 0, 10) = encodeBlockRef(1)
    /\ getValue(T, v4LPM, 1, 0) = encodeBlockRef(2)
    /\ \A k \in Slots \ {0} : getValue(T, v4LPM, 1, k) = encodeValue(0, 8)

(***************************************************************************)
(* Vocabulary of the properties of the last step of Insert.                *)
(***************************************************************************)
\* The prefix and the value index of the insert the step makes.
NetNext == inserted'[Len(inserted')].net

ValueIdxNext == lpm'.values[inserted'[Len(inserted')].value]

\* The byte (0-based) of the address at which the walk of Insert(net) ends:
\* the first one with 8 * (i + 1) >= P.
TermByte(net) == IF net.bits = 0 THEN 0 ELSE (net.bits - 1) \div 8

TailOf(net) == 8 * (TermByte(net) + 1) - net.bits

\* The byte values b for which an address with the first TermByte(net) bytes
\* of net followed by b lies in net.
TerminalRange(net) ==
    {b \in Slots : Contains(net, [net.addr EXCEPT ![TermByte(net) + 1] = b])}

\* The walk along the first n bytes of addr from byte idx on: the block it
\* ends in, or, when a slot on the way is not a block reference, that slot
\* with its block and the byte of the address it is the slot of.
RECURSIVE PathTo(_, _, _, _, _, _)
PathTo(t, proto, addr, n, idx, blockIdx) ==
    IF idx = n THEN [exists |-> TRUE, blockIdx |-> blockIdx, idx |-> idx, slot |-> ZeroWord]
    ELSE IF isBlockRef(getValue(t, proto, blockIdx, addr[idx + 1]))
    THEN PathTo(t, proto, addr, n, idx + 1,
                decodeBlockRef(getValue(t, proto, blockIdx, addr[idx + 1])))
    ELSE [exists |-> FALSE, blockIdx |-> blockIdx, idx |-> idx,
          slot |-> getValue(t, proto, blockIdx, addr[idx + 1])]

TerminalPath(t, net) == PathTo(t, protoOf(net.addr), net.addr, TermByte(net), 0, 0)

\* The block in which Insert(net) ends, as propagate finds it on t: the
\* block at the end of the path, or, when the walk has to create it, 256
\* copies of the slot at which the walk leaves the blocks of t.
TerminalBlock(t, net) ==
    IF TerminalPath(t, net).exists
    THEN getBlockRef(t, protoOf(net.addr), TerminalPath(t, net).blockIdx)
    ELSE [k \in Slots |-> TerminalPath(t, net).slot]

\* C24: at the byte i at which Insert(p, v) ends, tail = 8 * (i + 1) - P is
\* in [0, 8], and propagate visits exactly the 2^tail consecutive slots of
\* the current block whose numbers b put an address with p's first i bytes
\* followed by b inside p: every such slot that was empty holds the new
\* terminal and none is left empty, and no other slot of the block is
\* written.  The range is all 256 slots for /0, two slots for /31 and /127,
\* one slot for a byte-aligned length.
C24_TerminalRange ==
    [][InsertStep =>
         \A net \in {NetNext} :
            \A before \in {TerminalBlock(T, net)}, after \in {TerminalBlock(TNext, net)} :
               LET range == TerminalRange(net)
                   lo == (net.addr[TermByte(net) + 1] \div Pow2(TailOf(net))) * Pow2(TailOf(net))
               IN  /\ TerminalPath(TNext, net).exists
                   /\ TailOf(net) \in 0 .. 8
                   /\ range = lo .. (lo + Pow2(TailOf(net)) - 1)
                   /\ \A b \in Slots \ range : after[b] = before[b]
                   /\ \A b \in range :
                         /\ ~isInvalid(after[b])
                         /\ isInvalid(before[b])
                               => after[b] = encodeValue(ValueIdxNext, net.bits)
                   /\ net.bits = 0 => range = Slots
                   /\ net.bits \in {31, 127} => Cardinality(range) = 2
                   /\ (net.bits > 0 /\ net.bits % 8 = 0) => Cardinality(range) = 1]_vars

\* C24 witness: 10.0.1.2/31 was inserted after 0.0.0.0/0; the /0 filled the
\* root, and in the block of the last byte the slots 2 and 3 hold the /31
\* and the 254 other slots still hold the /0.
C24_Witness ==
    /\ NumInserted = 2
    /\ inserted[1].net = [addr |-> <<0, 0, 0, 0>>, bits |-> 0]
    /\ inserted[2].net = [addr |-> <<10, 0, 1, 2>>, bits |-> 31]
    /\ \A b \in Slots \ {10} : decodeValue(getValue(T, v4LPM, 0, b)).prefixLen = 0
    /\ TerminalPath(T, inserted[2].net).exists
    /\ \A b \in Slots :
          decodeValue(TerminalBlock(T, inserted[2].net)[b]).prefixLen
             = IF b \in {2, 3} THEN 31 ELSE 0

IsTerminal(w) == ~isInvalid(w) /\ ~isBlockRef(w)

\* The blocks of t that the slots of range of the block before refer to.
RangeChildren(before, range) ==
    {decodeBlockRef(before[b]) : b \in {x \in range : isBlockRef(before[x])}}

\* C25: for each slot of the terminal range of Insert(p, v), an empty slot
\* becomes the terminal (v_idx, P); a terminal of prefix length P_old becomes
\* (v_idx, P) if and only if P >= P_old; a block reference stays, and in the
\* block it refers to exactly the empty slots become (v_idx, P), the
\* terminals and block references of that block staying as they are.  Every
\* other block (the blocks below the child blocks among them) is unchanged,
\* but for the slot in which the walk put the reference to a new block.
C25_PropagateRule ==
    [][InsertStep =>
         \A net \in {NetNext}, new \in {encodeValue(ValueIdxNext, NetNext.bits)} :
            \A before \in {TerminalBlock(T, net)}, after \in {TerminalBlock(TNext, net)} :
               LET proto == protoOf(net.addr)
                   range == TerminalRange(net)
                   path == TerminalPath(T, net)
               IN  /\ \A b \in range :
                         /\ isInvalid(before[b]) => after[b] = new
                         /\ IsTerminal(before[b]) =>
                               after[b] = IF net.bits >= decodeValue(before[b]).prefixLen
                                          THEN new ELSE before[b]
                         /\ isBlockRef(before[b]) =>
                               /\ after[b] = before[b]
                               /\ \A k \in Slots :
                                     getValue(TNext, proto, decodeBlockRef(before[b]), k) =
                                        IF isInvalid(getValue(T, proto, decodeBlockRef(before[b]), k))
                                        THEN new
                                        ELSE getValue(T, proto, decodeBlockRef(before[b]), k)
                   /\ \A j \in BlockIdxs(T, proto) \ (RangeChildren(before, range) \cup {path.blockIdx}) :
                         getBlockRef(TNext, proto, j) = getBlockRef(T, proto, j)
                   /\ ~path.exists =>
                         getBlockRef(TNext, proto, path.blockIdx) =
                            [getBlockRef(T, proto, path.blockIdx)
                                EXCEPT ![net.addr[path.idx + 1]] =
                                   encodeBlockRef(NumBlocks(T, proto))]
                   /\ \A q \in Families \ {proto} :
                         \A j \in BlockIdxs(T, q) : getBlockRef(TNext, q, j) = getBlockRef(T, q, j)]_vars

\* C25 witness: 10.0.0.0/8 was inserted after 10.0.0.0/15 and 10.0.1.0/24.
\* The slot of the root is a reference, and in the block it refers to the
\* reference to the block of the /24 and the terminal of the /15 stayed and
\* the empty slots took the /8; the block of the /24 is as it was.
C25_Witness ==
    /\ NumInserted = 3
    /\ loads = 0
    /\ inserted[1].net = [addr |-> <<10, 0, 0, 0>>, bits |-> 15]
    /\ inserted[2].net = [addr |-> <<10, 0, 1, 0>>, bits |-> 24]
    /\ inserted[3].net = [addr |-> <<10, 0, 0, 0>>, bits |-> 8]
    /\ getValue(T, v4LPM, 0, 10) = encodeBlockRef(1)
    /\ getValue(T, v4LPM, 1, 0) = encodeBlockRef(2)
    /\ decodeValue(getValue(T, v4LPM, 1, 1)).prefixLen = 15
    /\ \A k \in 2 .. 255 : decodeValue(getValue(T, v4LPM, 1, k)).prefixLen = 8
    /\ decodeValue(getValue(T, v4LPM, 2, 1)).prefixLen = 24
    /\ \A k \in Slots \ {1} : decodeValue(getValue(T, v4LPM, 2, k)).prefixLen = 15

\* Every terminal of block blockIdx has a prefix length of at least P when
\* level = 0 and of at least P + 8 otherwise, and the same holds, one level
\* down, in the blocks it refers to.
RECURSIVE LensAtLeast(_, _, _, _, _)
LensAtLeast(t, proto, blockIdx, P, level) ==
    \A k \in Slots :
       \A w \in {getValue(t, proto, blockIdx, k)} :
          IF isBlockRef(w) THEN LensAtLeast(t, proto, decodeBlockRef(w), P, level + 1)
          ELSE \/ isInvalid(w)
               \/ decodeValue(w).prefixLen >= (IF level = 0 THEN P ELSE P + 8)

\* C26: whenever propagate of a prefix of length P descends from a slot of
\* its range into an existing child block, every terminal of that child
\* block has a prefix length of at least P, and every terminal of the
\* sub-blocks it refers to one of at least P + 8.
C26_SubBlockLengths ==
    [][InsertStep =>
         \A net \in {NetNext} :
            TerminalPath(T, net).exists =>
               \A b \in TerminalRange(net) :
                  \A w \in {TerminalBlock(T, net)[b]} :
                     isBlockRef(w)
                        => LensAtLeast(T, protoOf(net.addr), decodeBlockRef(w), net.bits, 0)]_vars

\* L(family): the number of bytes of an address of the family.
AddrLen(proto) == IF proto = v4LPM THEN 4 ELSE 16

\* The slots of a block that hold a block reference.
BlockRefSlots(blk) == {k \in Slots : isBlockRef(blk[k])}

\* The slots of the family that hold a block reference, as <<block, slot>>.
RefSlots(t, proto) ==
    UNION {{<<b, k>> : k \in BlockRefSlots(getBlockRef(t, proto, b))} : b \in BlockIdxs(t, proto)}

\* Below block blockIdx, which is at the given depth, every reference is in
\* a block of a depth below L - 1.
RECURSIVE DepthOk(_, _, _, _)
DepthOk(t, proto, blockIdx, depth) ==
    \A blk \in {getBlockRef(t, proto, blockIdx)} :
       \A k \in BlockRefSlots(blk) :
          /\ depth < AddrLen(proto) - 1
          /\ DepthOk(t, proto, decodeBlockRef(blk[k]), depth + 1)

\* C27: the block references of a family form a tree rooted at block 0:
\* every reference in block b is to an index greater than b, every block but
\* the root is referred to by exactly one slot, and a block at depth
\* L(family) - 1 holds no reference; so the walk of a lookup ends on a
\* terminal or on an empty slot, never on a block reference at the last byte
\* of the address.
C27_WellFormedTree ==
    /\ \A proto \in Families :
          \A refs \in {RefSlots(T, proto)} :
             /\ \A r \in refs :
                   /\ decodeBlockRef(getValue(T, proto, r[1], r[2])) > r[1]
                   /\ decodeBlockRef(getValue(T, proto, r[1], r[2])) \in BlockIdxs(T, proto)
             /\ {decodeBlockRef(getValue(T, proto, r[1], r[2])) : r \in refs}
                   = 1 .. (NumBlocks(T, proto) - 1)
             /\ Cardinality(refs) = NumBlocks(T, proto) - 1
             /\ DepthOk(T, proto, 0, 0)
    /\ \A a \in TrieProbes : ~isBlockRef(lookupWalk(T, protoOf(a), a, 0, 0))

\* C27 witness: a loaded trie with the blocks of a /31 and of a /127, a chain
\* of 4 and one of 16 blocks that end at depth L - 1.
C27_Witness ==
    /\ loads = 1
    /\ NumBlocks(T, v4LPM) = 4
    /\ NumBlocks(T, v6LPM) = 16
    /\ TerminalPath(T, [addr |-> <<10, 0, 1, 2>>, bits |-> 31]).exists
    /\ TerminalPath(T, [addr |-> V6Host, bits |-> 127]).exists
    /\ TerminalPath(T, [addr |-> V6Host, bits |-> 127]).blockIdx = 15

\* The byte strings of the dynamic tier of the value table.
DynValues(m) == {m.revValues[i] : i \in 1 .. Len(m.revValues)}

\* C28: the dynamic values occupy exactly the indices [S_v, S_v + |dyn|);
\* the dedup map and the index-to-bytes list are inverse of each other, so
\* no byte string is twice in the list; interning bytes that are in the
\* dynamic tier returns their index and changes nothing; interning new bytes
\* returns S_v + |dyn| and adds exactly one entry to the list and to the map.
C28_ValueTable ==
    /\ DOMAIN lpm.values = DynValues(lpm)
    /\ \A i \in 1 .. Len(lpm.revValues) :
          lpm.values[lpm.revValues[i]] = lpm.sharedValueCount + i - 1
    /\ \A i, j \in 1 .. Len(lpm.revValues) :
          i # j => lpm.revValues[i] # lpm.revValues[j]
    /\ {lpm.values[v] : v \in DOMAIN lpm.values}
          = lpm.sharedValueCount .. (lpm.sharedValueCount + Len(lpm.revValues) - 1)
    /\ \A v \in PackValues \cup Values :
          \A a \in {addValue(lpm, v)} :
             IF v \in DynValues(lpm)
             THEN /\ a.valueIdx = lpm.values[v]
                  /\ a.lpm = lpm
             ELSE /\ a.valueIdx = lpm.sharedValueCount + Len(lpm.revValues)
                  /\ a.lpm.revValues = Append(lpm.revValues, v)
                  /\ DOMAIN a.lpm.values = DOMAIN lpm.values \cup {v}
                  /\ a.lpm.values[v] = a.valueIdx
                  /\ \A u \in DOMAIN lpm.values : a.lpm.values[u] = lpm.values[u]
                  /\ [a.lpm EXCEPT !.values = lpm.values, !.revValues = lpm.revValues] = lpm

\* C28 witness: three inserts with two distinct values, the third with the
\* value of the first: the table holds two values, at the indices 0 and 1.
C28_Witness ==
    /\ NumInserted = 3
    /\ loads = 0
    /\ inserted[1].value = inserted[3].value
    /\ inserted[2].value # inserted[1].value
    /\ lpm.revValues = <<inserted[1].value, inserted[2].value>>
    /\ lpm.values[inserted[1].value] = 0
    /\ lpm.values[inserted[2].value] = 1

\* The bytes of slot i of a value region of slots of slotSize bytes.
SlotBytes(bytes, slotSize, i) ==
    SubSeq(bytes, i * slotSize + 2, i * slotSize + 1 + bytes[i * slotSize + 1])

\* The bytes of shared value i of the trie.
SharedBytes(t, i) == SlotBytes(t.storage.values, t.lpm.sharedValuesSlotSize, i)

SharedIdxs(t) == 0 .. (t.lpm.sharedValueCount - 1)

\* C29: a loaded trie starts with an empty dedup map; the first insert of a
\* value whose bytes are those of a shared value is given the next dynamic
\* index, which is at least S_v; the shared value stays at its index; both
\* indices give the same bytes; and a later pack stores the bytes twice, at
\* both indices.
C29_NoDedupAcrossTiers ==
    /\ [](/\ (loads > 0 /\ loadedAt = NumInserted) =>
                /\ lpm.values = EmptyMap
                /\ lpm.revValues = <<>>
          /\ (loadResult.called /\ loadResult.status = "nil") =>
                /\ loadResult.lpm.values = EmptyMap
                /\ loadResult.lpm.revValues = <<>>
          /\ \A i \in SharedIdxs(T) :
                \A bytes \in {SharedBytes(T, i)} :
                   IF bytes \notin DOMAIN lpm.values
                   THEN addValue(lpm, bytes).valueIdx
                           = lpm.sharedValueCount + Len(lpm.revValues)
                   ELSE /\ lpm.values[bytes] >= lpm.sharedValueCount
                        /\ getValueByIndex(T, lpm.values[bytes]).value = bytes
                        /\ getValueByIndex(T, i).value = bytes
                        /\ \A pk \in {PackToSharedStorage(T)} :
                              ~pk.err =>
                                 /\ pk.storage.ValueCount
                                       = lpm.sharedValueCount + Len(lpm.revValues)
                                 /\ SlotBytes(pk.storage.values, pk.storage.ValueSlotSize, i)
                                       = bytes
                                 /\ SlotBytes(pk.storage.values, pk.storage.ValueSlotSize,
                                              lpm.values[bytes]) = bytes)
    /\ [][InsertStep =>
            /\ lpm'.sharedValueCount = lpm.sharedValueCount
            /\ \A i \in SharedIdxs(T) : SharedBytes(TNext, i) = SharedBytes(T, i)]_vars

\* C29 witness: "a" was inserted, the trie packed and loaded, and "a"
\* inserted again: the shared tier holds "a" at index 0 and the dynamic tier
\* holds it at index 1.
C29_Witness ==
    /\ loads = 1
    /\ loadedAt = 1
    /\ NumInserted = 2
    /\ inserted[1].value = <<97>>
    /\ inserted[2].value = <<97>>
    /\ lpm.sharedValueCount = 1
    /\ SharedBytes(T, 0) = <<97>>
    /\ lpm.revValues = << <<97>> >>
    /\ lpm.values[<<97>>] = 1

\* The kinds the code takes the word w for.
Kinds(w) ==
    {k \in {"empty", "blockref", "terminal"} :
        \/ k = "empty" /\ isInvalid(w)
        \/ k = "blockref" /\ isBlockRef(w)
        \/ k = "terminal" /\ IsTerminal(w)}

\* C30: for a value index below 2^24 and a prefix length in [0, 128] the
\* word of encodeValue is neither empty nor a block reference, its top byte
\* being P + 1 in [1, 129], prefix length 0 with value index 0 included; for
\* a block index below 2^30 the word of encodeBlockRef is a block reference
\* and not empty; and every 32-bit word is of exactly one of the kinds empty,
\* block reference and terminal.
C30_SlotKindsDisjoint ==
    /\ coded.op = "encodeValue" =>
          /\ ~isInvalid(coded.word)
          /\ ~isBlockRef(coded.word)
          /\ coded.word[1] = coded.prefixLen + 1
          /\ coded.word[1] \in 1 .. 129
          /\ Kinds(coded.word) = {"terminal"}
    /\ coded.op = "encodeBlockRef" =>
          /\ isBlockRef(coded.word)
          /\ ~isInvalid(coded.word)
          /\ Kinds(coded.word) = {"blockref"}
    /\ coded.op # "none" => Cardinality(Kinds(coded.word)) = 1

\* C30 witness: encodeValue(0, 0) gave the word 0x01000000.
C30_Witness ==
    /\ coded.op = "encodeValue"
    /\ coded.valueIdx = 0
    /\ coded.prefixLen = 0
    /\ coded.word = <<1, 0>>

\* C31: decodeValue(encodeValue(valueIdx, prefixLen)) = (valueIdx, prefixLen)
\* for every value index below 2^24 and prefix length in [0, 128], and
\* decodeBlockRef(encodeBlockRef(blockIdx)) = blockIdx for every block index
\* below 2^30.
C31_CodecRoundTrip ==
    /\ coded.op = "encodeValue" =>
          decodeValue(coded.word) = [valueIdx |-> coded.valueIdx, prefixLen |-> coded.prefixLen]
    /\ coded.op = "encodeBlockRef" => decodeBlockRef(coded.word) = coded.blockIdx

\* C31 witness: the largest block index, 2^30 - 1, was encoded as 0xFFFFFFFF.
C31_Witness ==
    /\ coded.op = "encodeBlockRef"
    /\ coded.blockIdx = 64 * TwoTo24 - 1
    /\ coded.word = <<255, TwoTo24 - 1>>

\* C32: an index that does not fit its field is never truncated or merged
\* into the other bits of the word.  The encoders of the code have no error
\* result and the caller writes the word they return into the slot; so the
\* claim is that the word written has the kind, the prefix length and the
\* index that were meant.
C32_OverflowSurfaced ==
    /\ coded.op = "encodeValue" =>
          /\ IsTerminal(coded.word)
          /\ decodeValue(coded.word)
                = [valueIdx |-> coded.valueIdx, prefixLen |-> coded.prefixLen]
    /\ coded.op = "encodeBlockRef" =>
          /\ isBlockRef(coded.word)
          /\ decodeBlockRef(coded.word) = coded.blockIdx

\* The byte strings address[0..i] with 8 * (i + 1) < P of the prefixes of
\* the family in seq.
PathStrings(seq, proto) ==
    UNION {{SubSeq(seq[n].net.addr, 1, i + 1) :
               i \in {j \in 0 .. (Len(seq[n].net.addr) - 1) : 8 * (j + 1) < seq[n].net.bits}} :
           n \in {m \in 1 .. Len(seq) : protoOf(seq[m].net.addr) = proto}}

\* The trie New() becomes by the inserts of seq from the i-th on, each
\* insert evaluated before the next one starts.
RECURSIVE BuildInOrder(_, _, _)
BuildInOrder(t, seq, i) ==
    IF i > Len(seq) THEN t
    ELSE CHOOSE t2 \in {BuildInOrder(t1, seq, i + 1) :
                           t1 \in {InsertOp(t, seq[i].net, seq[i].value)}} : TRUE

\* The trie of the example data set.
ExampleTrie == BuildInOrder([lpm |-> New, storage |-> NoStorage], ExampleData, 1)

\* C33: the number of blocks of a family is 1 plus the number of distinct
\* byte strings address[0..i] with 8 * (i + 1) < P over the inserted
\* prefixes of the family, whatever the order of the inserts, their values
\* and the prefixes inserted more than once; the example data set gives 13
\* IPv4 and 11 IPv6 blocks.
C33_BlockCount ==
    /\ \A proto \in Families :
          NumBlocks(T, proto) = 1 + Cardinality(PathStrings(inserted, proto))
    /\ Stats(ExampleTrie.lpm).IPv4Blocks = 13
    /\ Stats(ExampleTrie.lpm).IPv6Blocks = 11
    /\ \A proto \in Families :
          NumBlocks(ExampleTrie, proto) = 1 + Cardinality(PathStrings(ExampleData, proto))

\* C33 witness: three inserts, two of them of 10.0.1.0/24 with different
\* values and one of 10.0.1.2/31 between or beside them: 4 IPv4 blocks.
C33_Witness ==
    /\ NumInserted = 3
    /\ loads = 0
    /\ \E i, j \in 1 .. 3 :
          /\ i # j
          /\ inserted[i].net = inserted[j].net
          /\ inserted[i].net.bits = 24
          /\ inserted[i].value # inserted[j].value
    /\ \E i \in 1 .. 3 : inserted[i].net.bits = 31
    /\ NumBlocks(T, v4LPM) = 4
    /\ NumBlocks(T, v6LPM) = 1

\* C34: readers are not safe against a writer. Whenever an Insert stands
\* between the two writes that create a child block, the parent slot already
\* holds the reference to the new block index and the store does not hold
\* that block yet, so a lookup that reads the slot at that moment reads a
\* reference to a block that is not there; and a lookup whose cursor is a
\* block index outside the store got it in exactly that way, from the slot
\* of the writer in the writer's family.
C34_DanglingReference ==
    /\ writer.pc = "create2" =>
          \A proto \in {protoOf(writer.net.addr)} :
          \A slot \in {getValue(T, proto, writer.blockIdx, writer.net.addr[writer.idx + 1])} :
             /\ isBlockRef(slot)
             /\ decodeBlockRef(slot) = writer.newBlockIdx
             /\ ~hasBlock(T, proto, writer.newBlockIdx)
    /\ \A r \in Readers :
          (/\ reads[r].pc = "walk"
           /\ ~hasBlock(T, protoOf(reads[r].addr), reads[r].blockIdx)) =>
             /\ writer.pc = "create2"
             /\ reads[r].blockIdx = writer.newBlockIdx
             /\ protoOf(reads[r].addr) = protoOf(writer.net.addr)

\* C34: a goroutine has read the reference between the two writes and the
\* block it is about to index is not in the store.
C34_Witness ==
    \E r \in Readers :
       /\ writer.pc = "create2"
       /\ reads[r].pc = "walk"
       /\ reads[r].idx > 0
       /\ reads[r].blockIdx = writer.newBlockIdx
       /\ ~hasBlock(T, protoOf(reads[r].addr), reads[r].blockIdx)

\* The inserts of a prefix of the family, of length prefixLen, no longer
\* than the bytes of path and one more, that bound the value and whose
\* prefix bits agree with the bytes of path.
InsertsFor(path, proto, prefixLen, value) ==
    {i \in 1 .. NumInserted :
        /\ protoOf(inserted[i].net.addr) = proto
        /\ inserted[i].net.bits = prefixLen
        /\ inserted[i].value = value
        /\ prefixLen <= 8 * (Len(path) + 1)
        /\ \A j \in 1 .. Len(path) :
              \A h \in {Pow2(HostBits(inserted[i].net, j))} :
                 path[j] \div h = inserted[i].net.addr[j] \div h}

\* The prefix of insert i contains every address that begins with the bytes
\* of path and then the byte k.
CoversSlot(i, path, k) ==
    \A h \in {Pow2(HostBits(inserted[i].net, Len(path) + 1))} :
       k \div h = inserted[i].net.addr[Len(path) + 1] \div h

\* Every terminal of block blockIdx, reached through the bytes of path, and
\* of the blocks below it comes from an insert that contains the addresses
\* which reach its slot.
RECURSIVE TerminalsSound(_, _, _, _)
TerminalsSound(t, proto, blockIdx, path) ==
    \A blk \in {getBlockRef(t, proto, blockIdx)} :
       /\ \A k \in BlockRefSlots(blk) :
             TerminalsSound(t, proto, decodeBlockRef(blk[k]), Append(path, k))
       /\ \A w \in {blk[k] : k \in Slots} :
             IsTerminal(w) =>
                \A from \in {InsertsFor(path, proto, decodeValue(w).prefixLen,
                                        ValueAt(t, decodeValue(w).valueIdx))} :
                   \A k \in Slots :
                      blk[k] = w => \E i \in from : CoversSlot(i, path, k)

\* C35: lookup soundness. After inserts into New(), a lookup that finds a
\* value finds the value of an inserted prefix that contains the address;
\* and every terminal of a block at depth d has a prefix length of at most
\* 8 * (d + 1) and the value and length of an inserted prefix that contains
\* every address reaching its slot.
C35_LookupSound ==
    loads = 0 =>
       /\ \A a \in TrieProbes :
             \A res \in {Lookup(T, a)} :
                res.ok => \E i \in 1 .. NumInserted :
                             /\ inserted[i].value = res.value
                             /\ Contains(inserted[i].net, a)
       /\ \A proto \in Families : TerminalsSound(T, proto, 0, <<>>)

\* C35 witness: three inserts, a default route, 10.0.0.0/8 and 10.0.1.0/24
\* with another value; 10.0.1.2 finds the value of the /24, 10.1.0.0 that of
\* the /8 and 1.1.1.1 that of the default route.
C35_Witness ==
    /\ loads = 0
    /\ NumInserted = 3
    /\ \E i, j \in 1 .. 3 :
          /\ inserted[i] = [net |-> [addr |-> <<10, 0, 0, 0>>, bits |-> 8], value |-> <<97>>]
          /\ inserted[j] = [net |-> [addr |-> <<10, 0, 1, 0>>, bits |-> 24], value |-> <<>>]
    /\ Lookup(T, <<10, 0, 1, 2>>) = Found(<<>>)
    /\ Lookup(T, <<10, 1, 0, 0>>) = Found(<<97>>)
    /\ Lookup(T, <<1, 1, 1, 1>>) = Found(<<97>>)

\* C36: insert frame. An insert of the prefix p changes the lookup of no
\* address of the family of p that p does not contain: the value and the
\* found flag after the insert are those before it.
C36_InsertFrame ==
    [][InsertStep =>
         \A net \in {NetNext} :
            \A a \in TrieProbes :
               (protoOf(a) = protoOf(net.addr) /\ ~Contains(net, a))
                  => Lookup(TNext, a) = Lookup(T, a)]_vars

\* C36 witness: 10.0.1.0/24 was inserted after 10.0.0.0/8 and created two
\* blocks below slot 10 of the root; 10.1.0.0, outside the /24, still finds
\* the value of the /8 and 1.1.1.1 still finds nothing.
C36_Witness ==
    /\ loads = 0
    /\ NumInserted = 2
    /\ inserted[1].net = [addr |-> <<10, 0, 0, 0>>, bits |-> 8]
    /\ inserted[2].net = [addr |-> <<10, 0, 1, 0>>, bits |-> 24]
    /\ inserted[2].value # inserted[1].value
    /\ NumBlocks(T, v4LPM) = 3
    /\ Lookup(T, <<10, 1, 0, 0>>) = Found(inserted[1].value)
    /\ Lookup(T, <<10, 0, 1, 2>>) = Found(inserted[2].value)
    /\ Lookup(T, <<1, 1, 1, 1>>) = NotFound

\* The prefix with the bits beyond its length cleared.
Masked(net) == [net EXCEPT !.addr = Base(net)]

\* C37: host bits are ignored. An insert of a prefix leaves the trie, its
\* blocks, slots and values, exactly as the insert of the masked form of the
\* prefix with the same value would.
C37_HostBitsIgnored ==
    [][InsertStep =>
         \A in \in {inserted'[Len(inserted')]} :
            TNext = InsertOp(T, Masked(in.net), in.value)]_vars

\* C37 witness: 192.168.1.0/18 was inserted as it stands after
\* 192.168.0.0/16; the trie is the one the inserts of 192.168.0.0/16 and
\* 192.168.0.0/18 build, with the slots 0..63 of the block below 192.168
\* bound to the /18 and the others to the /16.
C37_Witness ==
    /\ loads = 0
    /\ NumInserted = 2
    /\ inserted[1].net = [addr |-> <<192, 168, 0, 0>>, bits |-> 16]
    /\ inserted[2].net = [addr |-> <<192, 168, 1, 0>>, bits |-> 18]
    /\ inserted[2].net # Masked(inserted[2].net)
    /\ inserted[2].value # inserted[1].value
    /\ T = Build(<<inserted[1], [inserted[2] EXCEPT !.net = Masked(inserted[2].net)]>>)
    /\ \A k \in 0 .. 63 : decodeValue(getValue(T, v4LPM, 2, k)).prefixLen = 18
    /\ \A k \in 64 .. 255 : decodeValue(getValue(T, v4LPM, 2, k)).prefixLen = 16

\* The addresses looked up on the trie and on its copy.
RepackProbes == { <<10, 0, 0, 1>>, <<1, 1, 1, 1>>, V6Doc, V6Zero }

\* The step is an insert into the copy.
CopyInsertStep == loadResult.called /\ loadResult' # loadResult

\* C38: repacking is stable. For every trie whose values are all at most 255
\* bytes long, so that PackToSharedStorage succeeds, the trie loaded from
\* the packed buffer packs into an equal buffer, header, blocks and values;
\* and the buffer PackToSharedStorage returns is a new one, so an insert
\* into the trie loaded from it changes no lookup of the packed trie, which
\* still reads blocks it has.
C38_RepackStable ==
    /\ [](\A pk \in {PackToSharedStorage(T)} :
             ~pk.err =>
                \A ld \in {NewWithSharedStorage(pk.storage)} :
                   /\ ~ld.err
                   /\ PackToSharedStorage([lpm |-> ld.lpm, storage |-> pk.storage])
                         = [err |-> FALSE, storage |-> pk.storage])
    /\ [][CopyInsertStep =>
             \A a \in RepackProbes :
                /\ LookupInBounds(TNext, a)
                /\ Lookup(TNext, a) = Lookup(T, a)]_vars

\* C38 witness: the trie, itself loaded from a buffer and holding a value of
\* 255 bytes, was packed and loaded again; 10.0.0.0/8 or the IPv6 prefix was
\* inserted into the copy, which wrote into the buffer of the copy, and the
\* copy finds an address the trie does not.
C38_Witness ==
    /\ loads > 0
    /\ \E i \in 1 .. NumInserted : inserted[i].value = V255
    /\ packed.called
    /\ loadResult.called
    /\ loadResult.lpm.revValues # <<>>
    /\ packed.storage # PackToSharedStorage(T).storage
    /\ \E a \in RepackProbes : Lookup(Copy, a).ok /\ ~Lookup(T, a).ok

\* The terminal words of the blocks of a family.
TerminalWords(t, proto) ==
    UNION {{w \in {getBlockRef(t, proto, b)[k] : k \in Slots} : IsTerminal(w)}
              : b \in BlockIdxs(t, proto)}

\* C39: terminal value indices are valid. In every state reached by New,
\* Insert and pack-and-load round trips, every terminal slot of either family
\* holds a value index below S_v + |dyn| and a prefix length from 0 to
\* 8 * L(family), and getValueByIndex of that index gives the stored value
\* as found.
C39_TerminalsResolve ==
    \A proto \in Families :
       \A w \in TerminalWords(T, proto) :
          \A d \in {decodeValue(w)} :
             /\ d.valueIdx < NumValues(T)
             /\ d.prefixLen \in 0 .. (8 * AddrLen(proto))
             /\ getValueByIndex(T, d.valueIdx) = Found(ValueAt(T, d.valueIdx))

====
